---- MODULE Spec2Model ----
(***************************************************************************)
(* Verification model of the native core of flash-recorder                 *)
(* (src-tauri/src/lib.rs).                                                 *)
(*                                                                         *)
(* SpecExp : the export manager (start_export, cancel_export,              *)
(*           ensure_export_worker, export_worker_async, run_export_job     *)
(*           with its stdout reader thread and encoder child).             *)
(* SpecRec : the capture controller and the preview relay's life cycle     *)
(*           (start_recording, stop_recording, webrtc_create_answer,       *)
(*           the recording and preview mutexes, the encoder child).        *)
(* SpecSampler : the cursor sampler thread of one session (the loop spawned *)
(*           by start_recording) and the cursor.jsonl it appends to.       *)
(***************************************************************************)
EXTENDS Integers, Sequences, FiniteSets, TLC

\* ------------------------------------------------------------------------
\* Bounds
\* ------------------------------------------------------------------------
MaxJobs == 2        \* start_export calls issued in one behaviour
MaxCancels == 1     \* cancel_export calls issued in one behaviour
MaxLines == 1       \* stdout lines one export encoder child writes
MaxCalls == 4       \* capture commands invoked in one behaviour
MaxTicks == 4       \* iterations of the cursor sampler loop
MaxSamples == 3     \* sampler iterations behind one recorded cursor.jsonl

\* ------------------------------------------------------------------------
\* Program constants
\* ------------------------------------------------------------------------
ProgressOne == 100  \* progress 1.0, in hundredths (progress is an f32 in [0,1])
StopPolls == 20     \* stop_recording: for _ in 0..20 { try_wait; sleep 200 ms }
SleepWrote == 10    \* sampler: sleep after an iteration that wrote a record
SleepIdle == 30     \* sampler: sleep after an iteration that wrote nothing
ZoomWindowMs == 5000 \* sampler: a click keeps the zoom window open for 5 s
ZoomFps == 30       \* ensure_zoom_track: let fps = 30u32
DefaultDurationMs == 15000 \* get_media_duration_ms(..).unwrap_or(15000)
TrackWindowMs == 5000 \* ensure_zoom_track: e = s + 5.0
RampMs == 500       \* ensure_zoom_track: let ramp = 0.5f64
FollowThresholdPx == 160 \* ensure_zoom_track: path_px >= 160.0
FollowSampleMs == 120 \* ensure_zoom_track: next_sample_ms = ms + 120
MaxAnchors == 4000  \* ensure_zoom_track: if anchors.len() > 4000 { break }
MaxWindows == 100   \* ensure_zoom_track: if windows.len() >= 100 { break }
OverrideBreak == 100 \* derive_zoom_override: if windows.len() > 100 { break }
ZoomedAbove == 10001 \* frames[i].zoom > 1.0001, in ten-thousandths
AnchorStepMs == 120 \* derive_zoom_override: if t - t_prev >= 0.12
AnchorBreak == 150  \* derive_zoom_override: if anchors.len() > 150 { break }

Min(a, b) == IF a <= b THEN a ELSE b

\* ------------------------------------------------------------------------
\* State
\* ------------------------------------------------------------------------
VARIABLES
    \* --- export manager (struct ExportManager, under one mutex) ---
    queue,          \* VecDeque<ExportJob>: sequence of [job_id, request]
    running,        \* bool
    statuses,       \* HashMap<String, ExportStatus>: job_id -> status or NoStatus
    cancellations,  \* HashMap<String, bool>: the job_ids mapped to true
    \* --- environment of the export manager ---
    now,            \* SystemTime::now() in ms, as last read
    nextReq,        \* number of the next ExportRequest handed to start_export
    nCancels,       \* cancel_export calls made so far
    sx,             \* start_export invocations in flight, per calling thread
    workers,        \* export_worker_async tasks spawned so far
    appended,       \* the requests in the order start_export pushed them
    written,        \* per request: the last status inserted into the status
                    \* map for it and the states inserted so far
    emitted,        \* per request: the last export_progress event emitted
                    \* for it and the states emitted so far
    \* --- capture controller and preview relay ---
    recLock,        \* RecordingState.inner mutex: "free" or the holding thread
    prevLock,       \* PreviewState.inner mutex: "free" or the holding thread
    recCell,        \* Option<RecordingSession>: NoSession or [child, sampler]
    prevCell,       \* Option<PreviewSession>: 0 or the index of the session
    encoders,       \* the capture encoder children spawned so far
    previews,       \* the preview sessions created so far
    samplers,       \* the cursor sampler threads spawned so far
    th,             \* the command threads: command, position, locals
    nCalls,         \* capture commands invoked so far
    \* --- cursor sampler thread of one session ---
    smp,            \* the thread's position and locals
    cursorLog,      \* cursor.jsonl: the records appended so far
    \* --- a finished session directory and ensure_zoom_track ---
    zdir,           \* the files of the directory: capture.json, cursor.jsonl,
                    \* the recorded media (its duration), zoom_track.json
    zret,           \* what the last ensure_zoom_track returned and did
    \* --- edit state files ---
    efiles,         \* the edit_state.json files on disk, by path
    esaved,         \* the last save_edit_state: its path and its edit state
    eloaded,        \* the last load_edit_state since: its path and result
    \* --- region capture arguments of start_recording ---
    rgn,            \* the region last requested, what start_recording made
                    \* of it, and the request it was derived from, if any
    \* --- camera track of a session and the export filter ---
    camTrack,       \* camera_track.json of the session directory
    camFilter,      \* the camera part of the last export filter built
    \* --- get_export_status ---
    got,            \* the last get_export_status: its job_id and result
    \* --- the three state mutexes, as the commands take and release them ---
    lockOwner,      \* per mutex: "free" or the thread holding it
    lockTh,         \* per thread: the command it runs, as the lock
                    \* operations still ahead of it
    \* --- the zoom windows of long recordings ---
    wlog,           \* the events parsed from a cursor.jsonl
    wres,           \* the windows ensure_zoom_track collected from them
    otrack,         \* the frames of a zoom_track.json as save_zoom_track wrote it
    ores,           \* the windows derive_zoom_override collected from them
    \* --- the argv of an export ---
    xargs           \* the last run_export_job up to its argv: the request,
                    \* the track files it found, and the argv it built

expVars == <<queue, running, statuses, cancellations, now, nextReq, nCancels,
             sx, workers, appended, written, emitted>>

recVars == <<recLock, prevLock, recCell, prevCell, encoders, previews,
             samplers, th, nCalls>>

smpVars == <<smp, cursorLog>>
zoomVars == <<zdir, zret>>
editVars == <<efiles, esaved, eloaded>>
rgnVars == <<rgn>>
camVars == <<camTrack, camFilter>>
getVars == <<got>>
lockVars == <<lockOwner, lockTh>>
winVars == <<wlog, wres, otrack, ores>>
argVars == <<xargs>>

\* what the export manager's operations never touch
notExp == <<recVars, smpVars, zoomVars, editVars, rgnVars,
           camVars, getVars, lockVars, winVars, argVars>>
\* what the capture controller's operations never touch
notRec == <<expVars, smpVars, zoomVars, editVars, rgnVars,
           camVars, getVars, lockVars, winVars, argVars>>
\* what the cursor sampler never touches
notSmp == <<expVars, recVars, zoomVars, editVars, rgnVars,
           camVars, getVars, lockVars, winVars, argVars>>
\* what ensure_zoom_track never touches
notZoom == <<expVars, recVars, smpVars, editVars, rgnVars,
           camVars, getVars, lockVars, winVars, argVars>>
\* what save_edit_state and load_edit_state never touch
notEdit == <<expVars, recVars, smpVars, zoomVars, rgnVars,
           camVars, getVars, lockVars, winVars, argVars>>
\* what the region arguments of start_recording never touch
notRgn == <<expVars, recVars, smpVars, zoomVars, editVars,
           camVars, getVars, lockVars, winVars, argVars>>

\* what the camera track commands and the export filter never touch
notCam == <<expVars, recVars, smpVars, zoomVars, editVars, rgnVars,
           getVars, lockVars, winVars, argVars>>

\* what taking and releasing the state mutexes never touches
notLock == <<expVars, recVars, smpVars, zoomVars, editVars, rgnVars, camVars,
            getVars,
            winVars, argVars>>

\* what the collection of zoom windows never touches
notWin == <<expVars, recVars, smpVars, zoomVars, editVars, rgnVars, camVars,
           getVars, lockVars, argVars>>

\* what the argv of an export never touches
notArg == <<expVars, recVars, smpVars, zoomVars, editVars, rgnVars, camVars,
           getVars, lockVars, winVars>>

vars == <<expVars, recVars, smpVars, zoomVars, editVars, rgnVars, camVars,
          getVars, lockVars, winVars, argVars>>

\* ------------------------------------------------------------------------
\* Export manager: data
\* ------------------------------------------------------------------------
Callers == {"c1", "c2"}
JobIds == 1..MaxJobs
Requests == 1..MaxJobs
Durations == {-1, 0, 2}       \* get_media_duration_ms: None (-1), Some(0), Some(2)
OutTimes == {1, 3}         \* values of out_time_ms=<n> lines
StdoutLines == {[kind |-> "out_time_ms", v |-> n] : n \in OutTimes}
                 \cup {[kind |-> "progress_end", v |-> 0]}

ExportStatus(st, p, e, o) ==
    [state |-> st, progress |-> p, error |-> e, output_path |-> o]
NoStatus == ExportStatus("absent", 0, "none", 0)

NoJob == [job_id |-> 0, request |-> 0]
NoChild == [st |-> "none", ok |-> FALSE]

IdleCall == [pc |-> "idle", job_id |-> 0, request |-> 0]

\* progress = (out_time_ms as f64 / duration_ms as f64).min(1.0)
\* x/0 is +inf or NaN in f64, and both give 1.0 under f64::min(1.0).
ProgressOf(out_time_ms, duration_ms) ==
    IF duration_ms = 0 THEN ProgressOne
    ELSE Min((out_time_ms * ProgressOne) \div duration_ms, ProgressOne)

\* ensure_export_worker: should_spawn, from manager.running
ShouldSpawnAlways(mgrRunning) == TRUE
ShouldSpawn(mgrRunning) == ~mgrRunning

\* a fresh export_worker_async task, about to lock and pop.
\* killIssued: child.kill() was called; ownExit: the child exited by itself;
\* cancelledAlive: cancel_export named this job while its child was alive;
\* polledSince: the cancellation flag was read after such a cancel_export.
NewWorker ==
    [pc |-> "pop", job |-> NoJob, sprog |-> 0, dur |-> -1,
     child |-> NoChild, pipe |-> <<>>, nlines |-> 0,
     rpc |-> "none", rprog |-> 0, result |-> "none",
     killIssued |-> FALSE, cancelledAlive |-> FALSE, polledSince |-> FALSE,
     ownExit |-> FALSE]
ExitedWorker == [NewWorker EXCEPT !.pc = "exited"]

\* history of one request's statuses: nothing yet
NoHistory == [state |-> "absent", progress |-> 0, states |-> {}]
Record(h, st, p) ==
    [state |-> st, progress |-> p, states |-> h.states \cup {st}]
Wr(req, st, p) == [written EXCEPT ![req] = Record(@, st, p)]
Em(req, st, p) == [emitted EXCEPT ![req] = Record(@, st, p)]

\* get_export_status: statuses.get(&job_id).cloned().ok_or("export_not_found")
AlwaysFound(map, job_id) ==
    [ok |-> TRUE, err |-> "none", status |-> map[job_id]]
StatusOf(map, job_id) ==
    IF map[job_id] = NoStatus
      THEN [ok |-> FALSE, err |-> "export_not_found", status |-> NoStatus]
      ELSE [ok |-> TRUE, err |-> "none", status |-> map[job_id]]
\* no get_export_status yet
NoGet == [done |-> FALSE, job_id |-> 0,
          ret |-> [ok |-> FALSE, err |-> "none", status |-> NoStatus]]

\* ------------------------------------------------------------------------
\* Export manager: initial state (ExportState::new)
\* ------------------------------------------------------------------------
InitExpVars ==
    /\ queue = <<>>
    /\ running = FALSE
    /\ statuses = [id \in JobIds |-> NoStatus]
    /\ cancellations = {}
    /\ now = 1
    /\ nextReq = 1
    /\ nCancels = 0
    /\ sx = [c \in Callers |-> IdleCall]
    /\ workers = <<>>
    /\ appended = <<>>
    /\ written = [r \in Requests |-> NoHistory]
    /\ emitted = [r \in Requests |-> NoHistory]
    /\ got = NoGet

\* ------------------------------------------------------------------------
\* start_export (one invocation per calling thread at a time)
\* ------------------------------------------------------------------------
\* job_id = SystemTime::now() in ms: the clock has advanced since the last
\* reading, or it has not.
StartExportCall(c) ==
    /\ sx[c].pc = "idle"
    /\ nextReq <= MaxJobs
    /\ \E t \in {now, now + 1} \cap JobIds :
         /\ now' = t
         /\ sx' = [sx EXCEPT ![c] = [pc |-> "push", job_id |-> t,
                                     request |-> nextReq]]
    /\ nextReq' = nextReq + 1
    /\ UNCHANGED <<queue, running, statuses, cancellations, nCancels,
                   workers, written, emitted, appended>>
    /\ UNCHANGED notExp

\* lock; statuses.insert(queued); queue.push_back(job); unlock
StartExportPush(c) ==
    /\ sx[c].pc = "push"
    /\ statuses' = [statuses EXCEPT ![sx[c].job_id] =
                       ExportStatus("queued", 0, "none", sx[c].request)]
    /\ queue' = Append(queue, [job_id |-> sx[c].job_id,
                               request |-> sx[c].request])
    /\ written' = Wr(sx[c].request, "queued", 0)
    /\ appended' = Append(appended, sx[c].request)
    /\ sx' = [sx EXCEPT ![c].pc = "emit"]
    /\ UNCHANGED <<running, cancellations, now, nextReq, nCancels, workers,
                   emitted>>
    /\ UNCHANGED notExp

\* emit_export_status(&app, &status)
StartExportEmit(c) ==
    /\ sx[c].pc = "emit"
    /\ emitted' = Em(sx[c].request, "queued", 0)
    /\ sx' = [sx EXCEPT ![c].pc = "ensure"]
    /\ UNCHANGED <<queue, running, statuses, cancellations, now, nextReq,
                   nCancels, workers, written, appended>>
    /\ UNCHANGED notExp

\* ensure_export_worker: lock; test and set running; unlock; spawn the task
StartExportEnsure(c) ==
    /\ sx[c].pc = "ensure"
    /\ IF ShouldSpawn(running)
         THEN /\ running' = TRUE
              /\ workers' = Append(workers, NewWorker)
         ELSE UNCHANGED <<running, workers>>
    /\ sx' = [sx EXCEPT ![c] = IdleCall]
    /\ UNCHANGED <<queue, statuses, cancellations, now, nextReq, nCancels,
                   written, emitted, appended>>
    /\ UNCHANGED notExp

\* ------------------------------------------------------------------------
\* cancel_export
\* ------------------------------------------------------------------------
CancelExport(id) ==
    /\ nCancels < MaxCancels
    /\ nCancels' = nCancels + 1
    /\ cancellations' = cancellations \cup {id}
    /\ IF statuses[id] # NoStatus
         THEN /\ statuses' = [statuses EXCEPT ![id].state = "cancelled"]
              /\ written' = Wr(statuses[id].output_path, "cancelled",
                               statuses[id].progress)
         ELSE UNCHANGED <<statuses, written>>
    /\ workers' = [w \in DOMAIN workers |->
                     IF /\ workers[w].job.job_id = id
                        /\ workers[w].child.st = "alive"
                       THEN [workers[w] EXCEPT !.cancelledAlive = TRUE]
                       ELSE workers[w]]
    /\ UNCHANGED <<queue, running, now, nextReq, sx, emitted, appended>>
    /\ UNCHANGED notExp

\* ------------------------------------------------------------------------
\* export_worker_async
\* ------------------------------------------------------------------------
\* VecDeque::pop_front on a non-empty queue: the job taken and the rest
PopBack(q) == [job |-> q[Len(q)], rest |-> SubSeq(q, 1, Len(q) - 1)]
PopFront(q) == [job |-> Head(q), rest |-> Tail(q)]

\* lock; queue.pop_front(); unlock
WorkerPop(w) ==
    /\ workers[w].pc = "pop"
    /\ IF queue = <<>>
         THEN /\ workers' = [workers EXCEPT ![w].pc = "clear"]
              /\ UNCHANGED queue
         ELSE /\ workers' = [workers EXCEPT ![w].pc = "set_running",
                                            ![w].job = PopFront(queue).job,
                                            ![w].sprog = 0]
              /\ queue' = PopFront(queue).rest
    /\ UNCHANGED <<running, statuses, cancellations, now, nextReq, nCancels,
                   sx, written, emitted, appended>>
    /\ UNCHANGED notExp

\* the queue was empty: lock; running = false; unlock; return
WorkerClear(w) ==
    /\ workers[w].pc = "clear"
    /\ running' = FALSE
    /\ workers' = [workers EXCEPT ![w] = ExitedWorker]
    /\ UNCHANGED <<queue, statuses, cancellations, now, nextReq, nCancels,
                   sx, written, emitted, appended>>
    /\ UNCHANGED notExp

\* lock; statuses.insert(running, progress 0.0); unlock
WorkerSetRunning(w) ==
    /\ workers[w].pc = "set_running"
    /\ statuses' = [statuses EXCEPT ![workers[w].job.job_id] =
                       ExportStatus("running", workers[w].sprog, "none",
                                    workers[w].job.request)]
    /\ written' = Wr(workers[w].job.request, "running", workers[w].sprog)
    /\ workers' = [workers EXCEPT ![w].pc = "emit_running"]
    /\ UNCHANGED <<queue, running, cancellations, now, nextReq, nCancels,
                   sx, emitted, appended>>
    /\ UNCHANGED notExp

WorkerEmitRunning(w) ==
    /\ workers[w].pc = "emit_running"
    /\ emitted' = Em(workers[w].job.request, "running", workers[w].sprog)
    /\ workers' = [workers EXCEPT ![w].pc = "probe"]
    /\ UNCHANGED <<queue, running, statuses, cancellations, now, nextReq,
                   nCancels, sx, written, appended>>
    /\ UNCHANGED notExp

\* final status of a job, from run_export_job's result
FinalState(result) == IF result = "ok" THEN "completed" ELSE "failed"
FinalProgress(result, sprog) == IF result = "ok" THEN ProgressOne ELSE sprog
FinalError(result) == IF result = "ok" THEN "none" ELSE result

\* lock; statuses.insert(final); cancellations.remove(job_id); unlock
WorkerFinal(w) ==
    /\ workers[w].pc = "final"
    /\ LET wk == workers[w]
           st == FinalState(wk.result)
           pr == FinalProgress(wk.result, wk.sprog)
       IN /\ statuses' = [statuses EXCEPT ![wk.job.job_id] =
                  ExportStatus(st, pr, FinalError(wk.result), wk.job.request)]
          /\ written' = Wr(wk.job.request, st, pr)
          /\ cancellations' = cancellations \ {wk.job.job_id}
          /\ workers' = [workers EXCEPT ![w].pc = "emit_final",
                                        ![w].sprog = pr]
    /\ UNCHANGED <<queue, running, now, nextReq, nCancels, sx, emitted,
                   appended>>
    /\ UNCHANGED notExp

\* emit the final status; loop
WorkerEmitFinal(w) ==
    /\ workers[w].pc = "emit_final"
    /\ emitted' = Em(workers[w].job.request, FinalState(workers[w].result),
                     workers[w].sprog)
    /\ workers' = [workers EXCEPT ![w] = NewWorker]
    /\ UNCHANGED <<queue, running, statuses, cancellations, now, nextReq,
                   nCancels, sx, written, appended>>
    /\ UNCHANGED notExp

\* ------------------------------------------------------------------------
\* run_export_job (inside spawn_blocking), its encoder child and its
\* stdout reader thread
\* ------------------------------------------------------------------------
\* probe the duration, build argv, spawn the child and the reader threads
RunSpawn(w) ==
    /\ workers[w].pc = "probe"
    /\ \E d \in Durations, spawned \in BOOLEAN :
         workers' = [workers EXCEPT ![w] =
            IF spawned
              THEN [@ EXCEPT !.pc = "poll", !.dur = d,
                             !.child = [st |-> "alive", ok |-> FALSE],
                             !.rpc = "read"]
              ELSE [@ EXCEPT !.pc = "final", !.result = "ffmpeg_not_found"]]
    /\ UNCHANGED <<queue, running, statuses, cancellations, now, nextReq,
                   nCancels, sx, written, emitted, appended>>
    /\ UNCHANGED notExp

\* cancellations.get(job_id).copied().unwrap_or(false)
NeverCancelled(cancels, id) == FALSE
IsCancelled(cancels, id) == id \in cancels

\* lock; read the cancellation flag; unlock
RunPollCancel(w) ==
    /\ workers[w].pc = "poll"
    /\ workers' = [workers EXCEPT
          ![w].pc = IF IsCancelled(cancellations, workers[w].job.job_id)
                      THEN "kill" ELSE "trywait",
          ![w].polledSince = workers[w].cancelledAlive]
    /\ UNCHANGED <<queue, running, statuses, cancellations, now, nextReq,
                   nCancels, sx, written, emitted, appended>>
    /\ UNCHANGED notExp

\* child.kill(); child.wait()
RunKill(w) ==
    /\ workers[w].pc = "kill"
    /\ workers' = [workers EXCEPT ![w].pc = "join",
                                  ![w].child = [st |-> "reaped", ok |-> FALSE],
                                  ![w].killIssued = TRUE,
                                  ![w].result = "export_cancelled"]
    /\ UNCHANGED <<queue, running, statuses, cancellations, now, nextReq,
                   nCancels, sx, written, emitted, appended>>
    /\ UNCHANGED notExp

\* child.try_wait(); on None sleep 120 ms and poll again
RunTryWait(w) ==
    /\ workers[w].pc = "trywait"
    /\ workers' = [workers EXCEPT ![w] =
            IF workers[w].child.st = "exited"
              THEN [@ EXCEPT !.pc = "join", !.child.st = "reaped",
                             !.result = IF workers[w].child.ok THEN "ok"
                                        ELSE "export_failed"]
              ELSE [@ EXCEPT !.pc = "poll"]]
    /\ UNCHANGED <<queue, running, statuses, cancellations, now, nextReq,
                   nCancels, sx, written, emitted, appended>>
    /\ UNCHANGED notExp

\* reader_handle.join() returns once the reader thread has ended
NotJoined(rpc) == TRUE
Joined(rpc) == rpc = "done"

\* reader_handle.join(); stderr_handle.join(); return
RunJoin(w) ==
    /\ workers[w].pc = "join"
    /\ Joined(workers[w].rpc)
    /\ workers' = [workers EXCEPT
          ![w].pc = "final",
          ![w].rpc = IF @ = "done" THEN "none" ELSE @,
          ![w].pipe = IF workers[w].rpc = "done" THEN <<>> ELSE @,
          ![w].nlines = IF workers[w].rpc = "done" THEN 0 ELSE @]
    /\ UNCHANGED <<queue, running, statuses, cancellations, now, nextReq,
                   nCancels, sx, written, emitted, appended>>
    /\ UNCHANGED notExp

\* the encoder writes one line to stdout
ChildWrite(w) ==
    /\ workers[w].child.st = "alive"
    /\ workers[w].nlines < MaxLines
    /\ \E l \in StdoutLines :
         workers' = [workers EXCEPT ![w].pipe = Append(@, l),
                                    ![w].nlines = @ + 1]
    /\ UNCHANGED <<queue, running, statuses, cancellations, now, nextReq,
                   nCancels, sx, written, emitted, appended>>
    /\ UNCHANGED notExp

\* the encoder exits on its own, with success or failure
ChildExit(w) ==
    /\ workers[w].child.st = "alive"
    /\ \E ok \in BOOLEAN :
         workers' = [workers EXCEPT ![w].child = [st |-> "exited", ok |-> ok],
                                    ![w].ownExit = TRUE]
    /\ UNCHANGED <<queue, running, statuses, cancellations, now, nextReq,
                   nCancels, sx, written, emitted, appended>>
    /\ UNCHANGED notExp

\* reader thread: read_line returned a line
ReaderLine(w) ==
    /\ workers[w].rpc = "read"
    /\ workers[w].pipe # <<>>
    /\ LET wk == workers[w]
           l == Head(wk.pipe)
       IN IF l.kind = "out_time_ms" /\ wk.dur # -1
            THEN LET p == ProgressOf(l.v, wk.dur)
                 IN /\ statuses' = [statuses EXCEPT ![wk.job.job_id] =
                          ExportStatus("running", p, "none", wk.job.request)]
                    /\ written' = Wr(wk.job.request, "running", p)
                    /\ workers' = [workers EXCEPT ![w].pipe = Tail(@),
                                                  ![w].rpc = "emit",
                                                  ![w].rprog = p]
            ELSE /\ workers' = [workers EXCEPT ![w].pipe = Tail(@),
                                  ![w].rpc = IF l.kind = "progress_end"
                                               THEN "done" ELSE "read"]
                 /\ UNCHANGED <<statuses, written>>
    /\ UNCHANGED <<queue, running, cancellations, now, nextReq, nCancels,
                   sx, emitted, appended>>
    /\ UNCHANGED notExp

\* reader thread: emit the progress status it has just inserted
ReaderEmit(w) ==
    /\ workers[w].rpc = "emit"
    /\ emitted' = Em(workers[w].job.request, "running", workers[w].rprog)
    /\ workers' = [workers EXCEPT ![w].rpc = "read", ![w].rprog = 0]
    /\ UNCHANGED <<queue, running, statuses, cancellations, now, nextReq,
                   nCancels, sx, written, appended>>
    /\ UNCHANGED notExp

\* reader thread: read_line returned 0 bytes (the child closed its stdout)
ReaderEof(w) ==
    /\ workers[w].rpc = "read"
    /\ workers[w].pipe = <<>>
    /\ workers[w].child.st # "alive"
    /\ workers' = [workers EXCEPT ![w].rpc = "done"]
    /\ UNCHANGED <<queue, running, statuses, cancellations, now, nextReq,
                   nCancels, sx, written, emitted, appended>>
    /\ UNCHANGED notExp

NextExp ==
    \/ \E c \in Callers : StartExportCall(c)
    \/ \E c \in Callers : StartExportPush(c)
    \/ \E c \in Callers : StartExportEmit(c)
    \/ \E c \in Callers : StartExportEnsure(c)
    \/ \E id \in JobIds : CancelExport(id)
    \/ \E w \in DOMAIN workers : WorkerPop(w)
    \/ \E w \in DOMAIN workers : WorkerClear(w)
    \/ \E w \in DOMAIN workers : WorkerSetRunning(w)
    \/ \E w \in DOMAIN workers : WorkerEmitRunning(w)
    \/ \E w \in DOMAIN workers : RunSpawn(w)
    \/ \E w \in DOMAIN workers : RunPollCancel(w)
    \/ \E w \in DOMAIN workers : RunKill(w)
    \/ \E w \in DOMAIN workers : RunTryWait(w)
    \/ \E w \in DOMAIN workers : RunJoin(w)
    \/ \E w \in DOMAIN workers : ChildWrite(w)
    \/ \E w \in DOMAIN workers : ChildExit(w)
    \/ \E w \in DOMAIN workers : ReaderLine(w)
    \/ \E w \in DOMAIN workers : ReaderEmit(w)
    \/ \E w \in DOMAIN workers : ReaderEof(w)
    \/ \E w \in DOMAIN workers : WorkerFinal(w)
    \/ \E w \in DOMAIN workers : WorkerEmitFinal(w)

\* ------------------------------------------------------------------------
\* Capture controller and preview relay: data
\* ------------------------------------------------------------------------
Threads == {"t1", "t2"}
NoSession == [child |-> 0, sampler |-> 0]

\* errors start_recording returns while it assembles argv (before any
\* preview session or child exists)
ArgErrors == {"create_dir_failed", "window_title_required", "region_required",
              "invalid_region", "list_devices_failed"}

\* a command thread between two commands. op, cam, pfail and ret keep what
\* the last command was and how it ended.
IdleThread ==
    [op |-> "none", pc |-> "idle", cam |-> FALSE, sess |-> NoSession,
     old |-> 0, new |-> 0, child |-> 0, sampler |-> 0, polls |-> 0,
     pfail |-> FALSE, ret |-> "none"]
Returned(t, r) ==
    [IdleThread EXCEPT !.op = th[t].op, !.cam = th[t].cam,
                       !.pfail = th[t].pfail, !.ret = r]

\* guard.is_some() on the recording cell
NeverRunning(cell) == FALSE
AlreadyRunning(cell) == cell # NoSession

\* preview_guard.take(): the prior Preview Session, if any
NoPriorPreview(cell) == 0
PriorPreview(cell) == cell

\* stop_preview_session: peer.close(); udp_task.abort()
ClosedPreview(p) == [p EXCEPT !.st = "closed", !.udp = "aborted"]

\* stdin.write_all(b"q"): the token reaches a child that is alive
QuitNotWritten(e) == FALSE
QuitWritten(e) == e.st = "alive"

\* child.kill(); child.wait()
KilledNotWaited(e) == [e EXCEPT !.st = "exited", !.killed = TRUE]
KilledAndWaited(e) == [e EXCEPT !.st = "reaped", !.killed = TRUE]

\* ------------------------------------------------------------------------
\* Capture controller: initial state (RecordingState::new, PreviewState::new)
\* ------------------------------------------------------------------------
InitRecVars ==
    /\ recLock = "free"
    /\ prevLock = "free"
    /\ recCell = NoSession
    /\ prevCell = 0
    /\ encoders = <<>>
    /\ previews = <<>>
    /\ samplers = <<>>
    /\ th = [t \in Threads |-> IdleThread]
    /\ nCalls = 0

\* ------------------------------------------------------------------------
\* ensure_zoom_track: the offline zoom track builder, as a function of the
\* parsed cursor events, the capture rect and the media duration.
\*
\* Times are f64 seconds in the code. A time computed as offset_ms / 1000.0
\* is carried here as the integer offset_ms: the division is monotone and
\* one-to-one on integers of this size. A window end is computed as
\* s + 5.0, which is not always the f64 nearest to (offset_ms + 5000) / 1000:
\* it is carried as [ms, ulp], ulp saying on which side of that f64 it fell.
\* Zoom values are carried as numerators over ZoomDen, pan centers as
\* numerators over a denominator d, both in exact arithmetic.
\* ------------------------------------------------------------------------
Max(a, b) == IF a >= b THEN a ELSE b
ZoomDen == RampMs * RampMs * RampMs

\* offsets o of the modelled inputs for which the f64 sum o/1000.0 + 5.0 is
\* below, or above, the f64 quotient (o + 5000)/1000.0
\* (238/1000.0 + 5.0 = 5.2379999999999995 < 5.238;
\*  137/1000.0 + 5.0 = 5.1370000000000005 > 5.137)
EndRoundsDown == {238}
EndRoundsUp == {137}

\* e = ds + 5.0 for ds = offset_ms / 1000.0
WindowEnd(offset_ms) ==
    [ms |-> offset_ms + TrackWindowMs,
     ulp |-> IF offset_ms \in EndRoundsDown THEN -1
             ELSE IF offset_ms \in EndRoundsUp THEN 1 ELSE 0]

\* an exact time, as a value comparable with a window end
At(ms) == [ms |-> ms, ulp |-> 0]
\* t <= e and t > e for t = ms / 1000.0
TimeLe(ms, e) == ms < e.ms \/ (ms = e.ms /\ e.ulp >= 0)
TimeGt(ms, e) == ~TimeLe(ms, e)

\* total_frames = ceil(duration_ms / (1000.0 / fps))
TotalFrames(duration_ms) == (duration_ms * ZoomFps + 999) \div 1000
\* the last frame index when there are no cursor events:
\* (duration_ms / 1000) * fps, in u64 arithmetic
EmptyTotalFrames(duration_ms) == (duration_ms \div 1000) * ZoomFps
\* time_ms = round(i * (1000.0 / fps))
FrameTimeMs(i) == (2 * 1000 * i + ZoomFps) \div (2 * ZoomFps)

\* floor of the square root
ISqrt(n) == CHOOSE r \in 0..n : r * r <= n /\ (r + 1) * (r + 1) > n
\* sqrt(dx*dx + dy*dy) in capture pixels between two normalized positions
\* (positions are carried in pixels of the capture rect)
DistPx(p, q) ==
    LET dx == q.x - p.x
        dy == q.y - p.y
    IN IF dy = 0 THEN (IF dx >= 0 THEN dx ELSE -dx)
       ELSE IF dx = 0 THEN (IF dy >= 0 THEN dy ELSE -dy)
       ELSE ISqrt(dx * dx + dy * dy)

\* the indices of the down events
Downs(events) ==
    SelectSeq([i \in 1..Len(events) |-> i],
              LAMBDA i : events[i].kind = "down")

\* merge the downs that fall inside the window: [e, wj]
RECURSIVE CoalesceDowns(_, _, _, _)
CoalesceDowns(events, downs, wj, e) ==
    IF wj <= Len(downs) /\ TimeLe(events[downs[wj]].offset_ms, e)
      THEN CoalesceDowns(events, downs, wj + 1,
                         WindowEnd(events[downs[wj]].offset_ms))
      ELSE [e |-> e, wj |-> wj]

\* the index of the move at which the cumulative path reaches the follow
\* threshold, scanning events[i..] up to the window end; 0 when none does
RECURSIVE FollowStart(_, _, _, _, _)
FollowStart(events, i, e, path_px, last) ==
    IF i > Len(events) \/ TimeGt(events[i].offset_ms, e) THEN 0
    ELSE IF events[i].kind = "move"
      THEN LET path == path_px + DistPx(last, events[i].pos)
           IN IF path >= FollowThresholdPx THEN i
              ELSE FollowStart(events, i + 1, e, path, events[i].pos)
      ELSE FollowStart(events, i + 1, e, path_px, last)

\* the pan anchors sampled from the moves after the follow start
RECURSIVE FollowAnchors(_, _, _, _, _)
FollowAnchors(events, i, e, next_sample_ms, anchors) ==
    IF i > Len(events) \/ TimeGt(events[i].offset_ms, e) THEN anchors
    ELSE IF events[i].kind = "move" /\ events[i].offset_ms >= next_sample_ms
      THEN LET added == Append(anchors, [t |-> At(events[i].offset_ms),
                                         pos |-> events[i].pos])
           IN IF Len(added) > MaxAnchors THEN added
              ELSE FollowAnchors(events, i + 1, e,
                                 events[i].offset_ms + FollowSampleMs, added)
      ELSE FollowAnchors(events, i + 1, e, next_sample_ms, anchors)

\* the anchors of the window opened by the down events[di], ending at e
EndAtPointer(events, di, e) ==
    <<[t |-> At(events[di].offset_ms), pos |-> events[di].pos],
      [t |-> e, pos |-> events[Len(events)].pos]>>
WindowAnchors(events, di, e) ==
    LET click == [t |-> At(events[di].offset_ms), pos |-> events[di].pos]
        fi == FollowStart(events, di + 1, e, 0, events[di].pos)
        followed ==
            IF fi = 0 THEN <<click>>
            ELSE FollowAnchors(events, di + 1, e,
                               events[fi].offset_ms + FollowSampleMs,
                               <<click, [t |-> At(events[fi].offset_ms),
                                         pos |-> events[fi].pos]>>)
    IN Append(followed, [t |-> e, pos |-> followed[Len(followed)].pos])

\* one iteration of the window loop: the window (s, e, anchors) opened by
\* downs[wi] and the index wj of the first down after it
WindowPerDown(events, downs, wi) ==
    LET e == WindowEnd(events[downs[wi]].offset_ms)
    IN [w |-> [s |-> events[downs[wi]].offset_ms, e |-> e,
               anchors |-> WindowAnchors(events, downs[wi], e)],
        wj |-> wi + 1]
NextWindow(events, downs, wi) ==
    LET di == downs[wi]
        c == CoalesceDowns(events, downs, wi + 1,
                           WindowEnd(events[di].offset_ms))
    IN [w |-> [s |-> events[di].offset_ms, e |-> c.e,
               anchors |-> WindowAnchors(events, di, c.e)],
        wj |-> c.wj]
\* the windows (s, e, anchors) of the downs from downs[wi] on
RECURSIVE BuildWindows(_, _, _, _)
BuildWindows(events, downs, wi, windows) ==
    IF wi > Len(downs) THEN windows
    ELSE LET n == NextWindow(events, downs, wi)
             added == Append(windows, n.w)
         IN IF Len(added) >= MaxWindows THEN added
            ELSE BuildWindows(events, downs, n.wj, added)

\* zoom of a frame at t inside the window (s, e), over ZoomDen
NoRamp(t, s, e) == 2 * ZoomDen
FrameZoom(t, s, e) ==
    IF t >= s /\ t < s + RampMs
      THEN 2 * ZoomDen
             - (RampMs - (t - s)) * (RampMs - (t - s)) * (RampMs - (t - s))
    ELSE IF t > e.ms - RampMs
      THEN LET u == Max(0, Min(RampMs, e.ms - t))
           IN 2 * ZoomDen - (RampMs - u) * (RampMs - u) * (RampMs - u)
    ELSE 2 * ZoomDen

\* pan center of a frame at t: for w in anchors.windows(2) { .. }
RECURSIVE FrameCenter(_, _, _, _)
FrameCenter(t, anchors, k, cur) ==
    IF k >= Len(anchors) THEN cur
    ELSE LET a0 == anchors[k]
             a1 == anchors[k + 1]
         IN IF t >= a0.t.ms /\ TimeLe(t, a1.t)
              THEN LET dt == Max(a1.t.ms - a0.t.ms, 1)
                       u == Max(0, Min(dt, t - a0.t.ms))
                   IN [xn |-> a0.pos.x * (dt - u) + a1.pos.x * u,
                       yn |-> a0.pos.y * (dt - u) + a1.pos.y * u,
                       d |-> dt]
            ELSE IF TimeGt(t, a1.t)
              THEN FrameCenter(t, anchors, k + 1,
                               [xn |-> a1.pos.x, yn |-> a1.pos.y, d |-> 1])
            ELSE FrameCenter(t, anchors, k + 1, cur)

\* the frame at time t_ms: the first window holding t decides it
RECURSIVE FrameAt(_, _, _, _)
FrameAt(t_ms, windows, k, rect) ==
    IF k > Len(windows)
      THEN [time_ms |-> t_ms, zoom |-> ZoomDen,
            center |-> [xn |-> rect.width, yn |-> rect.height, d |-> 2]]
    ELSE IF t_ms < windows[k].s \/ TimeGt(t_ms, windows[k].e)
      THEN FrameAt(t_ms, windows, k + 1, rect)
    ELSE LET a == windows[k].anchors
         IN [time_ms |-> t_ms,
             zoom |-> FrameZoom(t_ms, windows[k].s, windows[k].e),
             center |-> FrameCenter(t_ms, a, 1,
                          [xn |-> a[1].pos.x, yn |-> a[1].pos.y, d |-> 1])]

\* the frames written when cursor.jsonl holds no event
EmptyTrack(duration_ms, rect) ==
    [i \in 0..EmptyTotalFrames(duration_ms) |->
        [time_ms |-> FrameTimeMs(i), zoom |-> ZoomDen,
         center |-> [xn |-> rect.width, yn |-> rect.height, d |-> 2]]]

\* the frames written for a non-empty event list
EventTrack(events, duration_ms, rect) ==
    LET windows == BuildWindows(events, Downs(events), 1, <<>>)
    IN [i \in 0..TotalFrames(duration_ms) |->
           FrameAt(FrameTimeMs(i), windows, 1, rect)]

\* ZoomTrack { fps, frames, settings }
BuildTrack(events, duration_ms, rect) ==
    [fps |-> ZoomFps,
     frames |-> IF events = <<>> THEN EmptyTrack(duration_ms, rect)
                ELSE EventTrack(events, duration_ms, rect)]

\* ------------------------------------------------------------------------
\* Cursor sampler: data and initial state
\* ------------------------------------------------------------------------
Positions == {0, 1}            \* normalized pointer positions (axn, ayn)
Jitter == {0, 4980, 4990}      \* ms a sleep lasts beyond what was asked
NoneMs == -1                   \* Option<u64>::None

\* sleep after an iteration, by whether it wrote a record
NoSleep(wrote) == 0
SleepAfter(wrote) == IF wrote THEN SleepWrote ELSE SleepIdle

InitSmpVars ==
    /\ smp = [pc |-> "create", stop |-> FALSE, ticks |-> 0,
              elapsed |-> 0, sleep |-> 0,
              last_btn |-> FALSE, last_pos |-> -1,
              window_start_ms |-> NoneMs, window_end_ms |-> NoneMs]
    /\ cursorLog = <<>>

\* ------------------------------------------------------------------------
\* A finished session directory: data and initial state
\* ------------------------------------------------------------------------
CaptureRect == [width |-> 1920, height |-> 1080]
\* pointer positions, in pixels of the capture rect: (0.2, 0.2), a point
\* 80 px to its right, (0.2833, 0.2) 160 px to its right, and (0.8, 0.2)
ZPositions == {[x |-> 384, y |-> 216], [x |-> 464, y |-> 216],
               [x |-> 544, y |-> 216], [x |-> 1536, y |-> 216]}
\* the offset_ms the sampler iterations read
SampleTimes == {238, 1000, 1500, 4000, 5238}
\* what ffprobe reports for the recorded media: nothing (-1), or ms
MediaDurations == {-1, 1500, 9100}
NoTrack == [fps |-> 0, frames |-> <<>>]
\* capture.json: absent, unparsable, or a CaptureMeta with its rect
CaptureFile(st) == [st |-> st, rect |-> CaptureRect]
\* cursor.jsonl: absent, or the events of its parsable lines
NoCursorFile == [present |-> FALSE, events |-> <<>>]
CursorFile(events) == [present |-> TRUE, events |-> events]
NoDir == [capture |-> CaptureFile("missing"), cursor |-> NoCursorFile,
          media |-> -1, track |-> NoTrack, made |-> FALSE, online |-> <<>>]
NoCall == [ret |-> "none", built |-> FALSE, read |-> {}]

\* the elements of a set of times, in increasing order
RECURSIVE SortedSeq(_)
SortedSeq(S) ==
    IF S = {} THEN <<>>
    ELSE LET m == CHOOSE x \in S : \A y \in S : x <= y
         IN <<m>> \o SortedSeq(S \ {m})

\* the records one sampler iteration appends
SampleRecords(last_pos, last_btn, pos, btn, offset_ms) ==
    LET rec(k) == [kind |-> k, offset_ms |-> offset_ms, pos |-> pos]
    IN (IF pos # last_pos THEN <<rec("move")>> ELSE <<>>)
       \o (IF btn /\ ~last_btn THEN <<rec("down")>>
           ELSE IF ~btn /\ last_btn THEN <<rec("up")>> ELSE <<>>)

\* cursor.jsonl after the sampler iterations times[i], reading the pointer
\* at at[i].pos with the button at at[i].btn
RECURSIVE SampleLog(_, _, _, _, _)
SampleLog(times, at, i, last_pos, last_btn) ==
    IF i > Len(times) THEN <<>>
    ELSE SampleRecords(last_pos, last_btn, at[i].pos, at[i].btn, times[i])
         \o SampleLog(times, at, i + 1, at[i].pos, at[i].btn)

\* the zoom window after a down at offset_ms
WindowAfterDown(s, e, offset_ms) ==
    IF s # NoneMs /\ e # NoneMs /\ offset_ms <= e
      THEN [s |-> s, e |-> offset_ms + ZoomWindowMs]
      ELSE [s |-> offset_ms, e |-> offset_ms + ZoomWindowMs]

\* the zoom windows the sampler's zoom_frame logic goes through during the
\* iterations times[i..]: a down opens or extends the window, an iteration
\* past the window end closes it
RECURSIVE OnlineWindows(_, _, _, _, _, _, _)
OnlineWindows(times, at, i, last_btn, s, e, seen) ==
    IF i > Len(times) THEN seen
    ELSE LET down == at[i].btn /\ ~last_btn
             win == IF down THEN WindowAfterDown(s, e, times[i])
                    ELSE [s |-> s, e |-> e]
             closed == win.s # NoneMs /\ times[i] > win.e
             now_seen ==
                 IF ~down THEN seen
                 ELSE IF win.s = s
                   THEN [seen EXCEPT ![Len(seen)] = win]
                   ELSE Append(seen, win)
         IN OnlineWindows(times, at, i + 1, at[i].btn,
                          IF closed THEN NoneMs ELSE win.s,
                          IF closed THEN NoneMs ELSE win.e, now_seen)

InitZoomVars ==
    /\ zdir = NoDir
    /\ zret = NoCall

\* ------------------------------------------------------------------------
\* Edit state files: data and initial state
\* ------------------------------------------------------------------------
\* paths are sequences of components; text is a sequence of characters
OutputPaths == {<<"s1", "out.mp4">>, <<"s1", "camera.mp4">>,
                <<"out.mp4">>, <<>>}
Texts == {<<"a">>, <<"\"">>, <<"a", "\\">>}
\* f32 values: finite ones (in hundredths), NaN and the infinities
Floats == {[class |-> "finite", v |-> 0], [class |-> "finite", v |-> 94],
           [class |-> "nan", v |-> 0], [class |-> "inf", v |-> 0]}
\* EditState, by one field of each type it has
EditStates == [aspect : Texts, padding : {0, 24}, camera_mirror : BOOLEAN,
               shrink_16_9 : Floats]
DefaultEditState ==
    [aspect |-> <<"a">>, padding |-> 0, camera_mirror |-> FALSE,
     shrink_16_9 |-> [class |-> "finite", v |-> 94]]

\* a path that has a parent directory: edit_state.json next to it;
\* otherwise edit_state.json in the working directory
edit_state_path(output_path) ==
    IF Len(output_path) > 0
      THEN Append(SubSeq(output_path, 1, Len(output_path) - 1),
                  "edit_state.json")
      ELSE <<"edit_state.json">>
EditFilePaths == {edit_state_path(p) : p \in OutputPaths}

\* serde_json: a string is written between quotes with " and \ escaped
RECURSIVE EscapeText(_)
EscapeText(t) ==
    IF t = <<>> THEN <<>>
    ELSE (IF Head(t) \in {"\"", "\\"} THEN <<"\\", Head(t)>> ELSE <<Head(t)>>)
         \o EscapeText(Tail(t))
RECURSIVE UnescapeText(_)
UnescapeText(t) ==
    IF t = <<>> THEN <<>>
    ELSE IF Head(t) = "\\" /\ Len(t) >= 2
      THEN <<t[2]>> \o UnescapeText(Tail(Tail(t)))
      ELSE <<Head(t)>> \o UnescapeText(Tail(t))

\* serde_json: a float that is not finite is written as null
WriteFloat(f) ==
    IF f.class = "finite" THEN [t |-> "number", f |-> f]
    ELSE [t |-> "null", f |-> [class |-> "finite", v |-> 0]]

\* serde_json::to_string_pretty(&edit_state)
SerializeEditState(es) ==
    [aspect |-> EscapeText(es.aspect),
     padding |-> es.padding,
     camera_mirror |-> es.camera_mirror,
     shrink_16_9 |-> WriteFloat(es.shrink_16_9)]

\* serde_json::from_str::<EditState>(&data): null is not an f32
DeserializeEditState(data) ==
    IF data.shrink_16_9.t = "null"
      THEN [ok |-> FALSE, err |-> "invalid type: null, expected f32",
            state |-> DefaultEditState]
      ELSE [ok |-> TRUE, err |-> "none",
            state |-> [aspect |-> UnescapeText(data.aspect),
                       padding |-> data.padding,
                       camera_mirror |-> data.camera_mirror,
                       shrink_16_9 |-> data.shrink_16_9.f]]

NoFile == [exists |-> FALSE, data |-> SerializeEditState(DefaultEditState)]
NoSave == [path |-> <<>>, state |-> DefaultEditState, done |-> FALSE]
NoLoad == [path |-> <<>>, ret |-> DeserializeEditState(NoFile.data),
           done |-> FALSE]

InitEditVars ==
    /\ efiles = [f \in EditFilePaths |-> NoFile]
    /\ esaved = NoSave
    /\ eloaded = NoLoad

\* ------------------------------------------------------------------------
\* Region capture arguments: data and initial state
\* ------------------------------------------------------------------------
MaxI32 == 2147483647
MinI32 == -MaxI32 - 1
\* CaptureRegion { x, y, width, height }, all i32
CaptureRegion(x, y, w, h) == [x |-> x, y |-> y, width |-> w, height |-> h]
RegionXs == {-3, -2, 0, 3, 4, MaxI32}
RegionYs == {-2, -1, 0, 5, 6}
RegionWidths == {0, 1, 2, 100, 101}
RegionHeights == {-1, 1, 2, 99, 100}
Regions == {CaptureRegion(x, y, w, h) :
              x \in RegionXs, y \in RegionYs,
              w \in RegionWidths, h \in RegionHeights}
\* debug builds panic on i32 overflow, release builds wrap
Builds == {"debug", "release"}

\* v % 2 != 0 in Rust: the remainder of an odd v is 1 or -1, here 1
NeverOdd(v) == FALSE
IsOdd(v) == v % 2 # 0
\* v += 1 on an i32 in a release build
WrapInc(v) == IF v = MaxI32 THEN MinI32 ELSE v + 1

\* if region.x % 2 != 0 { region.x += 1; region.width -= 1; } and the same
\* for y and height
ShiftOnly(region) ==
    [x |-> IF IsOdd(region.x) THEN WrapInc(region.x) ELSE region.x,
     y |-> IF IsOdd(region.y) THEN WrapInc(region.y) ELSE region.y,
     width |-> region.width, height |-> region.height]
ShiftOdd(region) ==
    [x |-> IF IsOdd(region.x) THEN WrapInc(region.x) ELSE region.x,
     y |-> IF IsOdd(region.y) THEN WrapInc(region.y) ELSE region.y,
     width |-> IF IsOdd(region.x) THEN region.width - 1 ELSE region.width,
     height |-> IF IsOdd(region.y) THEN region.height - 1
                ELSE region.height]
\* if region.width % 2 != 0 { region.width -= 1; } and the same for height
FloorEven(region) ==
    [region EXCEPT
       !.width = IF IsOdd(region.width) THEN region.width - 1
                 ELSE region.width,
       !.height = IF IsOdd(region.height) THEN region.height - 1
                  ELSE region.height]

RegionErr(e) == [ok |-> FALSE, err |-> e, region |-> CaptureRegion(0, 0, 0, 0)]
\* the region branch of start_recording: the error it returns, or the
\* region it passes as -offset_x, -offset_y and -video_size
AlignRegion(region, build) ==
    IF region.width <= 0 \/ region.height <= 0 THEN RegionErr("invalid_region")
    ELSE IF build = "debug"
            /\ \/ (IsOdd(region.x) /\ region.x = MaxI32)
               \/ (IsOdd(region.y) /\ region.y = MaxI32)
      THEN RegionErr("panic: attempt to add with overflow")
    ELSE LET r == FloorEven(ShiftOdd(region))
         IN IF r.width <= 0 \/ r.height <= 0 THEN RegionErr("invalid_region")
            ELSE [ok |-> TRUE, err |-> "none", region |-> r]

\* the rect of capture.json and of the cursor sampler in region mode:
\* let region = request.region.clone()...; Rect { x: region.x, .. }
RegionRect(request_region) ==
    [x |-> request_region.x, y |-> request_region.y,
     width |-> request_region.width, height |-> request_region.height]

NoRegionCall ==
    [req |-> CaptureRegion(0, 0, 0, 0), res |-> RegionErr("none"),
     fed |-> FALSE, prev |-> CaptureRegion(0, 0, 0, 0),
     rect |-> CaptureRegion(0, 0, 0, 0)]

InitRgnVars == rgn = NoRegionCall

\* ------------------------------------------------------------------------
\* Camera track and the camera part of the export filter: data
\* ------------------------------------------------------------------------
\* CameraSegment { start_s, end_s, visible, .. }, times in whole seconds
CameraSegment(start_s, end_s, visible) ==
    [start_s |-> start_s, end_s |-> end_s, visible |-> visible]
\* the spans a saved track draws its segments from, in order of start
SegmentSpans == <<<<0, 5>>, <<3, 12>>, <<5, 10>>, <<10, 20>>>>
\* the segment lists save_camera_track is handed: for each span, no
\* segment, a visible one or a hidden one
RECURSIVE SegmentLists(_)
SegmentLists(k) ==
    IF k > Len(SegmentSpans) THEN {<<>>}
    ELSE LET rest == SegmentLists(k + 1)
             span == SegmentSpans[k]
         IN rest \cup {<<CameraSegment(span[1], span[2], v)>> \o r :
                         v \in BOOLEAN, r \in rest}
CameraTracks == SegmentLists(1)
\* durations get_media_duration_ms reports for the recording, in ms
\* (NoneMs: it could not tell)
CameraDurations == {NoneMs, 0, 20000}
\* camera_shadow of the edit state
CameraShadows == {0, 24}
\* instants of the exported video, in seconds
FilterTimes == {0, 2, 4, 5, 7, 10, 11, 13, 20, 21}

\* camera_track.json: absent, not a CameraTrack, or a CameraTrack
NoCameraTrack == [st |-> "missing", segments |-> <<>>]
BadCameraTrack == [st |-> "garbage", segments |-> <<>>]
CameraTrack(segments) == [st |-> "ok", segments |-> segments]

\* expressions of the encoder's filter language
NoExpr == [op |-> "none", args |-> <<>>]
\* format!("between(t,{},{})", a, b)
BetweenExpr(a, b) == [op |-> "between", args |-> <<a, b>>]
\* format!("({})+({})", l, r)
SumExpr(l, r) == [op |-> "+", args |-> <<l, r>>]
\* the value of an expression at time t: between is 1 on [a, b], else 0
RECURSIVE EvalExpr(_, _)
EvalExpr(expr, t) ==
    IF expr.op = "between"
      THEN (IF expr.args[1] <= t /\ t <= expr.args[2] THEN 1 ELSE 0)
    ELSE IF expr.op = "+"
      THEN EvalExpr(expr.args[1], t) + EvalExpr(expr.args[2], t)
    ELSE 0

\* the loop of derive_camera_enable over segments[i..], expr built so far
RECURSIVE EnableOver(_, _, _)
EnableOver(segments, i, expr) ==
    IF i > Len(segments) THEN expr
    ELSE IF ~segments[i].visible THEN EnableOver(segments, i + 1, expr)
    ELSE LET part == BetweenExpr(segments[i].start_s, segments[i].end_s)
         IN EnableOver(segments, i + 1,
                       IF expr = NoExpr THEN part ELSE SumExpr(expr, part))
\* derive_camera_enable: NoExpr is None
derive_camera_enable(track) ==
    IF track.st # "ok" \/ track.segments = <<>> THEN NoExpr
    ELSE EnableOver(track.segments, 1, NoExpr)

\* build_export_filter: the overlays that put the camera input on the
\* output [v], each with its enable option (NoExpr: none, always on)
CameraOverlays(has_camera, camera_shadow, camera_enable) ==
    IF ~has_camera THEN <<>>
    ELSE IF camera_shadow > 0
      THEN <<[src |-> "camshadow", enable |-> camera_enable],
             [src |-> "cam", enable |-> camera_enable]>>
    ELSE <<[src |-> "cam", enable |-> camera_enable]>>
\* timeline editing of the encoder: an overlay draws at t when it has no
\* enable option or its expression is not 0 at t
OverlayOn(overlay, t) ==
    overlay.enable = NoExpr \/ EvalExpr(overlay.enable, t) # 0

NoFilter == [built |-> FALSE, track |-> NoCameraTrack, overlays |-> <<>>]
InitCamVars ==
    /\ camTrack = NoCameraTrack
    /\ camFilter = NoFilter

\* ------------------------------------------------------------------------
\* The state mutexes: which command locks and unlocks what, in what order
\* ------------------------------------------------------------------------
\* RecordingState.inner, PreviewState.inner, ExportState.inner
Mutexes == {"recording", "preview", "export"}
LockThreads == {"k1", "k2", "k3"}
Acq(m) == [op |-> "lock", mutex |-> m]
Rel(m) == [op |-> "drop", mutex |-> m]

\* start_recording: the recording guard lives to the end of the command;
\* with a camera the preview guard is taken twice, around
\* create_preview_session, which may fail
StartRecordingLocks ==
    {<<Acq("recording"), Rel("recording")>>,
     <<Acq("recording"), Acq("preview"), Rel("preview"), Rel("recording")>>,
     <<Acq("recording"), Acq("preview"), Rel("preview"),
       Acq("preview"), Rel("preview"), Rel("recording")>>}
\* stop_recording: the recording guard lives to the end of the command;
\* with a session taken, the preview guard is taken inside it
PreviewBeforeRecording ==
    {<<Acq("recording"), Rel("recording")>>,
     <<Acq("preview"), Acq("recording"), Rel("recording"), Rel("preview")>>}
StopRecordingLocks ==
    {<<Acq("recording"), Rel("recording")>>,
     <<Acq("recording"), Acq("preview"), Rel("preview"), Rel("recording")>>}
\* webrtc_create_answer: the preview guard, dropped before the first await
WebrtcAnswerLocks == {<<Acq("preview"), Rel("preview")>>}
\* start_export (insert and push; then ensure_export_worker),
\* get_export_status, cancel_export
ExportCommandLocks ==
    {<<Acq("export"), Rel("export"), Acq("export"), Rel("export")>>,
     <<Acq("export"), Rel("export")>>}
\* export_worker_async, run_export_job and its reader thread: one block
\* under the manager lock at a time (pop, insert, read the flag, insert)
ExportWorkerLocks == {<<Acq("export"), Rel("export")>>}

LockPrograms ==
    StartRecordingLocks \cup StopRecordingLocks \cup WebrtcAnswerLocks
        \cup ExportCommandLocks \cup ExportWorkerLocks

InitLockVars ==
    /\ lockOwner = [m \in Mutexes |-> "free"]
    /\ lockTh = [t \in LockThreads |-> <<>>]

\* ------------------------------------------------------------------------
\* Zoom windows of long recordings: data
\* ------------------------------------------------------------------------
\* numbers of clicks in a recording: a few, and MaxWindows give or take two
ClickCounts == 1..8
ManyClicks == (MaxWindows - 2)..(MaxWindows + 2)
\* ms from one click to the next; whole half seconds, for which
\* offset_ms / 1000.0 + 5.0 is exact in f64
ClickGaps == {1000, 4500, 5000, 5500, 6000, 7000}
\* the gaps that put every click in a window of its own
ApartGaps == {gap \in ClickGaps : gap > TrackWindowMs}
\* the pointer rests at one place of the capture
ClickPos == [x |-> 384, y |-> 216]
\* cursor.jsonl of a recording with n clicks, gap ms apart (the downs; ups
\* and moves of a resting pointer play no part in the windows)
LongLog(n, gap) ==
    [i \in 1..n |->
        [kind |-> "down", offset_ms |-> (i - 1) * gap, pos |-> ClickPos]]
\* cursor.jsonl of a recording with downs at the given times
ShortLog(times) ==
    [i \in 1..Len(times) |->
        [kind |-> "down", offset_ms |-> times[i], pos |-> ClickPos]]
ClickLogs ==
    {LongLog(n, gap) : n \in ClickCounts, gap \in ClickGaps}
        \cup {LongLog(n, gap) : n \in ManyClicks, gap \in ApartGaps}
        \cup {ShortLog(SortedSeq(ts)) : ts \in SUBSET SampleTimes \ {{}}}

\* the window loop before its first iteration: wi = 0usize, no window
NoWindows == [built |-> FALSE, wi |-> 1, windows |-> <<>>]
\* numbers of zoomed runs in a saved track, up to a few more than the cap
RunCounts == (0..2) \cup ((OverrideBreak - 1)..(OverrideBreak + 2))
\* frames in a zoomed run, and in the stretch before it
RunLens == {1, 2, 4}
\* zoom of a frame in ten-thousandths: 1.0, and max_zoom 2.0
ZoomOff == 10000
ZoomOn == 20000
\* a zoom_track.json with n zoomed runs of len frames, len frames apart
RunTrack(n, len) ==
    [k \in 1..(2 * n * len + 1) |->
        [time_ms |-> FrameTimeMs(k - 1),
         zoom |-> IF ((k - 1) \div len) % 2 = 1 THEN ZoomOn ELSE ZoomOff]]
SavedTracks == {RunTrack(n, len) : n \in RunCounts, len \in RunLens}
\* frames[i].zoom > 1.0001
Zoomed(frame) == frame.zoom > ZoomedAbove
\* the least index from i on whose frame is zoomed (or is not), else n + 1:
\* while i < n && frames[i].zoom <= 1.0001 { i += 1 }
SkipWhile(frames, i, zoomed) ==
    LET stops(k) == Zoomed(frames[k]) # zoomed
    IN IF \A k \in i..Len(frames) : ~stops(k) THEN Len(frames) + 1
       ELSE CHOOSE k \in i..Len(frames) :
                stops(k) /\ \A l \in i..(k - 1) : ~stops(l)
\* if windows.len() > 100 { break }
OverrideFull(windows) == Len(windows) > OverrideBreak
\* one iteration of `while i < n`: skip the frames at rest; push the run of
\* zoomed frames from i; i = j; if windows.len() > 100 { break }. more is
\* whether the loop goes on to another iteration
NextRun(frames, from, windows) ==
    LET i == SkipWhile(frames, from, FALSE)
    IN IF i > Len(frames)
         THEN [more |-> FALSE, i |-> i, windows |-> windows]
         ELSE LET j == SkipWhile(frames, i, TRUE)
                  added == Append(windows, [s |-> frames[i].time_ms,
                                            e |-> frames[j - 1].time_ms])
              IN [more |-> j <= Len(frames) /\ ~OverrideFull(added),
                  i |-> j, windows |-> added]
\* the whole loop, for the tracks of a few runs
RECURSIVE CollectRuns(_, _, _)
CollectRuns(frames, from, windows) ==
    LET n == NextRun(frames, from, windows)
    IN IF n.more THEN CollectRuns(frames, n.i, n.windows) ELSE n.windows
\* if anchors.len() > 150 { break }
AnchorsFull(anchors) == Len(anchors) > AnchorBreak
\* for f in frames { if t - t_prev >= 0.12 { anchors.push((t, f.axn));
\* t_prev = t }; if anchors.len() > 150 { break } }, from the frame `from`
\* up to the next push; t_prev is f64::MIN before the first anchor (NoneMs
\* here). An anchor is kept as its time in ms; the same loop runs for ayn.
NextAnchor(frames, from, t_prev, anchors) ==
    LET due(k) == t_prev = NoneMs
                    \/ frames[k].time_ms - t_prev >= AnchorStepMs
    IN IF \A k \in from..Len(frames) : ~due(k)
         THEN [more |-> FALSE, i |-> Len(frames) + 1, t_prev |-> t_prev,
               anchors |-> anchors]
         ELSE LET k == CHOOSE d \in from..Len(frames) :
                           due(d) /\ \A l \in from..(d - 1) : ~due(l)
                  added == Append(anchors, frames[k].time_ms)
              IN [more |-> k < Len(frames) /\ ~AnchorsFull(added),
                  i |-> k + 1, t_prev |-> frames[k].time_ms,
                  anchors |-> added]
\* no export has read the track: pc is the loop derive_zoom_override is in
NoOverride ==
    [pc |-> "idle", i |-> 1, windows |-> <<>>, t_prev |-> NoneMs,
     anchors |-> <<>>]

InitWinVars ==
    /\ wlog = <<>>
    /\ wres = NoWindows
    /\ otrack = <<>>
    /\ ores = NoOverride

\* ------------------------------------------------------------------------
\* The argv of an export: data
\* ------------------------------------------------------------------------
\* request.camera_path: Option<String> (given, text) and whether a file of
\* that name exists; the empty path names no file
NoPath == ""
CameraPaths ==
    {[given |-> FALSE, text |-> NoPath, on_disk |-> FALSE],
     [given |-> TRUE, text |-> NoPath, on_disk |-> FALSE]}
        \cup {[given |-> TRUE, text |-> "camera.mp4", on_disk |-> d] :
                d \in BOOLEAN}
\* the fields of the edit state that decide which chains the filter has
ArgEditStates ==
    {[shadow |-> sh, radius |-> rd, camera_shadow |-> cs] :
        sh \in {0, 24}, rd \in {0, 12}, cs \in CameraShadows}
\* a track file of the recording directory: missing, not readable as a
\* string, not the JSON of a track, or a track with its items (the frames
\* of a zoom track, the segments of a camera or clip track)
FileStates == {"missing", "unreadable", "garbage"}
TrackFile(st, items) == [st |-> st, segments |-> items]
ZoomFiles ==
    {TrackFile(st, <<>>) : st \in FileStates}
        \cup {TrackFile("ok", RunTrack(n, 1)) : n \in 0..2}
        \cup {TrackFile("ok", <<>>)}
CameraFiles ==
    {TrackFile(st, <<>>) : st \in FileStates}
        \cup {TrackFile("ok", l) :
                l \in {<<>>, <<CameraSegment(0, 5, TRUE)>>,
                       <<CameraSegment(0, 5, FALSE)>>,
                       <<CameraSegment(0, 5, TRUE),
                         CameraSegment(5, 10, FALSE)>>}}
\* ClipSegment { start_s, end_s }
ClipSegment(start_s, end_s) == [start_s |-> start_s, end_s |-> end_s]
ClipFiles ==
    {TrackFile(st, <<>>) : st \in FileStates}
        \cup {TrackFile("ok", l) :
                l \in {<<>>, <<ClipSegment(0, 5)>>,
                       <<ClipSegment(0, 5), ClipSegment(8, 12)>>}}

\* camera_path.as_ref().filter(|path| !path.is_empty()): NoPath is None
CameraInput(camera_path) ==
    IF camera_path.given /\ camera_path.text # NoPath THEN camera_path.text
    ELSE NoPath
\* camera_path.map(|path| PathBuf::from(path).exists()).unwrap_or(false)
HasCamera(camera_path) ==
    CameraInput(camera_path) # NoPath /\ camera_path.on_disk

\* derive_zoom_override: NoExpr is None; else the zoom expression, here the
\* windows it nests
derive_zoom_override(track) ==
    IF track.st # "ok" \/ track.segments = <<>> THEN NoExpr
    ELSE [op |-> "zoom", args |-> CollectRuns(track.segments, 1, <<>>)]
\* the loop of derive_clip_select over segments[i..], expr built so far
RECURSIVE SelectOver(_, _, _)
SelectOver(segments, i, expr) ==
    IF i > Len(segments) THEN expr
    ELSE LET part == BetweenExpr(segments[i].start_s, segments[i].end_s)
         IN SelectOver(segments, i + 1,
                       IF expr = NoExpr THEN part ELSE SumExpr(expr, part))
\* derive_clip_select: NoExpr is None
SelectAlways(track) == BetweenExpr(0, 0)
derive_clip_select(track) ==
    IF track.st # "ok" \/ track.segments = <<>> THEN NoExpr
    ELSE SelectOver(track.segments, 1, NoExpr)

\* one chain of the filter graph: [ins]filter,filter,..[outs], with the
\* enable option of its overlay (NoExpr: none)
Chain(ins, filters, outs, enable) ==
    [ins |-> ins, filters |-> filters, outs |-> outs, enable |-> enable]
\* build_export_filter: the chains of the filter, in the order of the string
build_export_filter(edit_state, has_camera, zoom_override, camera_enable, clip_select) ==
    LET scaled == IF zoom_override # NoExpr
                    THEN <<"scale", "format", "zoompan">>
                    ELSE <<"scale", "format", "fps">>
        selected == IF clip_select # NoExpr
                      THEN scaled \o <<"select", "setpts">> ELSE scaled
        rounded == IF edit_state.radius > 0
                     THEN selected \o <<"geq">> ELSE selected
        base_label == IF has_camera THEN "base" ELSE "v"
        base ==
          IF edit_state.shadow > 0
            THEN <<Chain(<<>>, <<"bg_source">>, <<"bg">>, NoExpr),
                   Chain(<<"0:v">>, rounded \o <<"split">>,
                         <<"fg", "shadow">>, NoExpr),
                   Chain(<<"shadow">>, <<"boxblur", "colorchannelmixer">>,
                         <<"shadow">>, NoExpr),
                   Chain(<<"bg", "shadow">>, <<"overlay">>, <<"bg2">>, NoExpr),
                   Chain(<<"bg2", "fg">>, <<"overlay">>, <<base_label>>,
                         NoExpr)>>
            ELSE <<Chain(<<>>, <<"bg_source">>, <<"bg">>, NoExpr),
                   Chain(<<"0:v">>, rounded, <<"fg">>, NoExpr),
                   Chain(<<"bg", "fg">>, <<"overlay">>, <<base_label>>,
                         NoExpr)>>
        camera_rounded == <<"scale", "crop", "format", "geq">>
    IN IF ~has_camera THEN base
       ELSE IF edit_state.camera_shadow > 0
         THEN base \o
              <<Chain(<<"1:v">>, camera_rounded \o <<"split">>,
                      <<"cam", "camshadow">>, NoExpr),
                Chain(<<"camshadow">>, <<"boxblur", "colorchannelmixer">>,
                      <<"camshadow">>, NoExpr),
                Chain(<<"base", "camshadow">>, <<"overlay">>, <<"bg2">>,
                      camera_enable),
                Chain(<<"bg2", "cam">>, <<"overlay">>, <<"v">>,
                      camera_enable)>>
       ELSE base \o
            <<Chain(<<"1:v">>, camera_rounded, <<"cam">>, NoExpr),
              Chain(<<"base", "cam">>, <<"overlay">>, <<"v">>,
                    camera_enable)>>

\* the -i arguments of run_export_job: the recording, and the camera file
\* if let Some(path) = camera_path { if has_camera { .. } }
AnyCameraPath(camera_path, has_camera) ==
    IF CameraInput(camera_path) # NoPath
      THEN <<"input", CameraInput(camera_path)>> ELSE <<"input">>
ExportInputs(camera_path, has_camera) ==
    IF CameraInput(camera_path) # NoPath /\ has_camera
      THEN <<"input", CameraInput(camera_path)>> ELSE <<"input">>
\* run_export_job from its first line to the argv: the -i inputs, the
\* -filter_complex chains and the -map arguments
ExportArgv(camera_path, edit_state, zoom_file, camera_file, clip_file) ==
    LET has_camera == HasCamera(camera_path)
        zoom_override == derive_zoom_override(zoom_file)
        camera_enable == derive_camera_enable(camera_file)
        clip_select == derive_clip_select(clip_file)
    IN [inputs |-> ExportInputs(camera_path, has_camera),
        filter |-> build_export_filter(edit_state, has_camera, zoom_override,
                                       camera_enable, clip_select),
        maps |-> <<"v", "0:a?">>]

\* no export has built its argv
NoArgv ==
    [built |-> FALSE, camera_path |-> [given |-> FALSE, text |-> NoPath,
                                       on_disk |-> FALSE],
     zoom_file |-> TrackFile("missing", <<>>),
     camera_file |-> TrackFile("missing", <<>>),
     clip_file |-> TrackFile("missing", <<>>),
     argv |-> [inputs |-> <<>>, filter |-> <<>>, maps |-> <<>>],
     err |-> "none"]
InitArgVars == xargs = NoArgv

Init ==
    /\ InitExpVars /\ InitRecVars /\ InitSmpVars /\ InitZoomVars
    /\ InitEditVars /\ InitRgnVars /\ InitCamVars /\ InitLockVars
    /\ InitWinVars /\ InitArgVars

\* ------------------------------------------------------------------------
\* start_recording
\* ------------------------------------------------------------------------
\* the command is invoked; cam: the request selects a camera
StartRecordingCall(t) ==
    /\ th[t].pc = "idle"
    /\ nCalls < MaxCalls
    /\ nCalls' = nCalls + 1
    /\ \E cam \in BOOLEAN :
         th' = [th EXCEPT ![t] = [IdleThread EXCEPT !.op = "start",
                                                    !.pc = "lock",
                                                    !.cam = cam]]
    /\ UNCHANGED <<recLock, prevLock, recCell, prevCell, encoders, previews,
                   samplers>>
    /\ UNCHANGED notRec

\* state.inner.lock(): held until the command returns
StartRecordingLock(t) ==
    /\ th[t].op = "start" /\ th[t].pc = "lock"
    /\ recLock = "free"
    /\ recLock' = t
    /\ th' = [th EXCEPT ![t].pc = "check"]
    /\ UNCHANGED <<prevLock, recCell, prevCell, encoders, previews, samplers,
                   nCalls>>
    /\ UNCHANGED notRec

\* if guard.is_some() { return Err("recording_already_running") }
StartRecordingCheck(t) ==
    /\ th[t].op = "start" /\ th[t].pc = "check"
    /\ IF AlreadyRunning(recCell)
         THEN /\ th' = [th EXCEPT ![t] = Returned(t, "recording_already_running")]
              /\ recLock' = "free"
         ELSE /\ th' = [th EXCEPT ![t].pc = "args"]
              /\ UNCHANGED recLock
    /\ UNCHANGED <<prevLock, recCell, prevCell, encoders, previews, samplers,
                   nCalls>>
    /\ UNCHANGED notRec

\* session id, output directory, argv for screen, camera and microphone
StartRecordingArgs(t) ==
    /\ th[t].op = "start" /\ th[t].pc = "args"
    /\ \/ /\ th' = [th EXCEPT ![t].pc = IF th[t].cam THEN "prev_take"
                                                     ELSE "spawn"]
          /\ UNCHANGED recLock
       \/ /\ \E e \in ArgErrors : th' = [th EXCEPT ![t] = Returned(t, e)]
          /\ recLock' = "free"
    /\ UNCHANGED <<prevLock, recCell, prevCell, encoders, previews, samplers,
                   nCalls>>
    /\ UNCHANGED notRec

\* preview_state.inner.lock(); preview_guard.take()
StartRecordingPrevTake(t) ==
    /\ th[t].op = "start" /\ th[t].pc = "prev_take"
    /\ prevLock = "free"
    /\ prevLock' = t
    /\ th' = [th EXCEPT ![t].pc = "prev_stop",
                        ![t].old = PriorPreview(prevCell)]
    /\ prevCell' = IF PriorPreview(prevCell) # 0 THEN 0 ELSE prevCell
    /\ UNCHANGED <<recLock, recCell, encoders, previews, samplers, nCalls>>
    /\ UNCHANGED notRec

\* block_on(stop_preview_session(existing)) if there was one; drop the guard
StartRecordingPrevStop(t) ==
    /\ th[t].op = "start" /\ th[t].pc = "prev_stop"
    /\ previews' = IF th[t].old # 0
                     THEN [previews EXCEPT ![th[t].old] = ClosedPreview(@)]
                     ELSE previews
    /\ prevLock' = "free"
    /\ th' = [th EXCEPT ![t].pc = "prev_create", ![t].old = 0]
    /\ UNCHANGED <<recLock, recCell, prevCell, encoders, samplers, nCalls>>
    /\ UNCHANGED notRec

\* block_on(create_preview_session()).map_err(log_error)?
StartRecordingPrevCreate(t) ==
    /\ th[t].op = "start" /\ th[t].pc = "prev_create"
    /\ \/ /\ previews' = Append(previews, [st |-> "open", udp |-> "pending"])
          /\ th' = [th EXCEPT ![t].pc = "prev_store",
                              ![t].new = Len(previews) + 1]
          /\ UNCHANGED recLock
       \/ /\ th' = [th EXCEPT ![t] =
                      [Returned(t, "preview_create_failed") EXCEPT
                          !.pfail = TRUE]]
          /\ recLock' = "free"
          /\ UNCHANGED previews
    /\ UNCHANGED <<prevLock, recCell, prevCell, encoders, samplers, nCalls>>
    /\ UNCHANGED notRec

\* preview_state.inner.lock(); *preview_guard = Some(session); drop the guard
StartRecordingPrevStore(t) ==
    /\ th[t].op = "start" /\ th[t].pc = "prev_store"
    /\ prevLock = "free"
    /\ prevCell' = th[t].new
    /\ th' = [th EXCEPT ![t].pc = "spawn", ![t].new = 0]
    /\ UNCHANGED <<recLock, prevLock, recCell, encoders, previews, samplers,
                   nCalls>>
    /\ UNCHANGED notRec

\* write capture.json, create ffmpeg.log, spawn the encoder child
StartRecordingSpawn(t) ==
    /\ th[t].op = "start" /\ th[t].pc = "spawn"
    /\ \/ /\ encoders' = Append(encoders, [st |-> "alive", quit |-> FALSE,
                                          killed |-> FALSE])
          /\ th' = [th EXCEPT ![t].pc = "sampler",
                              ![t].child = Len(encoders) + 1]
          /\ UNCHANGED recLock
       \/ /\ \E e \in {"log_create_failed", "ffmpeg_not_found"} :
               th' = [th EXCEPT ![t] = Returned(t, e)]
          /\ recLock' = "free"
          /\ UNCHANGED encoders
    /\ UNCHANGED <<prevLock, recCell, prevCell, previews, samplers, nCalls>>
    /\ UNCHANGED notRec

\* thread::spawn of the cursor sampler with a fresh stop flag
StartRecordingSampler(t) ==
    /\ th[t].op = "start" /\ th[t].pc = "sampler"
    /\ samplers' = Append(samplers, [stop |-> FALSE, st |-> "running"])
    /\ th' = [th EXCEPT ![t].pc = "store", ![t].sampler = Len(samplers) + 1]
    /\ UNCHANGED <<recLock, prevLock, recCell, prevCell, encoders, previews,
                   nCalls>>
    /\ UNCHANGED notRec

\* *guard = Some(RecordingSession { .. }); return Ok
StartRecordingStore(t) ==
    /\ th[t].op = "start" /\ th[t].pc = "store"
    /\ recCell' = [child |-> th[t].child, sampler |-> th[t].sampler]
    /\ recLock' = "free"
    /\ th' = [th EXCEPT ![t] = Returned(t, "ok")]
    /\ UNCHANGED <<prevLock, prevCell, encoders, previews, samplers, nCalls>>
    /\ UNCHANGED notRec

\* ------------------------------------------------------------------------
\* stop_recording
\* ------------------------------------------------------------------------
StopRecordingCall(t) ==
    /\ th[t].pc = "idle"
    /\ nCalls < MaxCalls
    /\ nCalls' = nCalls + 1
    /\ th' = [th EXCEPT ![t] = [IdleThread EXCEPT !.op = "stop",
                                                  !.pc = "lock"]]
    /\ UNCHANGED <<recLock, prevLock, recCell, prevCell, encoders, previews,
                   samplers>>
    /\ UNCHANGED notRec

StopRecordingLock(t) ==
    /\ th[t].op = "stop" /\ th[t].pc = "lock"
    /\ recLock = "free"
    /\ recLock' = t
    /\ th' = [th EXCEPT ![t].pc = "take"]
    /\ UNCHANGED <<prevLock, recCell, prevCell, encoders, previews, samplers,
                   nCalls>>
    /\ UNCHANGED notRec

\* guard.take().ok_or("no_active_recording")?; cursor_stop.store(true)
StopRecordingTake(t) ==
    /\ th[t].op = "stop" /\ th[t].pc = "take"
    /\ IF recCell = NoSession
         THEN /\ th' = [th EXCEPT ![t] = Returned(t, "no_active_recording")]
              /\ recLock' = "free"
              /\ UNCHANGED <<recCell, samplers>>
         ELSE /\ th' = [th EXCEPT ![t].pc = "quit", ![t].sess = recCell]
              /\ recCell' = NoSession
              /\ samplers' = [samplers EXCEPT ![recCell.sampler].stop = TRUE]
              /\ UNCHANGED recLock
    /\ UNCHANGED <<prevLock, prevCell, encoders, previews, nCalls>>
    /\ UNCHANGED notRec

\* stdin.write_all(b"q"); stdin.flush()  (fails silently on a dead child)
StopRecordingQuit(t) ==
    /\ th[t].op = "stop" /\ th[t].pc = "quit"
    /\ encoders' = [encoders EXCEPT ![th[t].sess.child].quit =
                       QuitWritten(encoders[th[t].sess.child])]
    /\ th' = [th EXCEPT ![t].pc = "poll", ![t].polls = 0]
    /\ UNCHANGED <<recLock, prevLock, recCell, prevCell, previews, samplers,
                   nCalls>>
    /\ UNCHANGED notRec

\* one round of: try_wait, else sleep 200 ms; after StopPolls rounds, kill
StopRecordingPoll(t) ==
    /\ th[t].op = "stop" /\ th[t].pc = "poll"
    /\ LET c == th[t].sess.child
       IN IF encoders[c].st = "exited"
            THEN /\ encoders' = [encoders EXCEPT ![c].st = "reaped"]
                 /\ th' = [th EXCEPT ![t].pc = "prev_take"]
            ELSE /\ th' = [th EXCEPT ![t].polls = @ + 1,
                                     ![t].pc = IF th[t].polls + 1 = StopPolls
                                                 THEN "kill" ELSE "poll"]
                 /\ UNCHANGED encoders
    /\ UNCHANGED <<recLock, prevLock, recCell, prevCell, previews, samplers,
                   nCalls>>
    /\ UNCHANGED notRec

\* if !exited { child.kill(); child.wait() }
StopRecordingKill(t) ==
    /\ th[t].op = "stop" /\ th[t].pc = "kill"
    /\ encoders' = [encoders EXCEPT ![th[t].sess.child] = KilledAndWaited(@)]
    /\ th' = [th EXCEPT ![t].pc = "prev_take"]
    /\ UNCHANGED <<recLock, prevLock, recCell, prevCell, previews, samplers,
                   nCalls>>
    /\ UNCHANGED notRec

\* preview_state.inner.lock(); preview_guard.take()
StopRecordingPrevTake(t) ==
    /\ th[t].op = "stop" /\ th[t].pc = "prev_take"
    /\ prevLock = "free"
    /\ prevLock' = t
    /\ th' = [th EXCEPT ![t].pc = "prev_stop", ![t].old = prevCell]
    /\ prevCell' = 0
    /\ UNCHANGED <<recLock, recCell, encoders, previews, samplers, nCalls>>
    /\ UNCHANGED notRec

\* block_on(stop_preview_session(preview_session)); drop the preview guard
StopRecordingPrevStop(t) ==
    /\ th[t].op = "stop" /\ th[t].pc = "prev_stop"
    /\ previews' = IF th[t].old # 0
                     THEN [previews EXCEPT ![th[t].old] = ClosedPreview(@)]
                     ELSE previews
    /\ prevLock' = "free"
    /\ th' = [th EXCEPT ![t].pc = "ret", ![t].old = 0]
    /\ UNCHANGED <<recLock, recCell, prevCell, encoders, samplers, nCalls>>
    /\ UNCHANGED notRec

\* return Ok(StopRecordingResponse); the session and the guard are dropped
StopRecordingReturn(t) ==
    /\ th[t].op = "stop" /\ th[t].pc = "ret"
    /\ recLock' = "free"
    /\ th' = [th EXCEPT ![t] = Returned(t, "ok")]
    /\ UNCHANGED <<prevLock, recCell, prevCell, encoders, previews, samplers,
                   nCalls>>
    /\ UNCHANGED notRec

\* ------------------------------------------------------------------------
\* webrtc_create_answer
\* ------------------------------------------------------------------------
WebrtcAnswerCall(t) ==
    /\ th[t].pc = "idle"
    /\ nCalls < MaxCalls
    /\ nCalls' = nCalls + 1
    /\ th' = [th EXCEPT ![t] = [IdleThread EXCEPT !.op = "answer",
                                                  !.pc = "peer"]]
    /\ UNCHANGED <<recLock, prevLock, recCell, prevCell, encoders, previews,
                   samplers>>
    /\ UNCHANGED notRec

\* lock; clone the stored session's peer or fail preview_not_ready; unlock
WebrtcAnswerPeer(t) ==
    /\ th[t].op = "answer" /\ th[t].pc = "peer"
    /\ prevLock = "free"
    /\ th' = [th EXCEPT ![t] =
                IF prevCell = 0 THEN Returned(t, "preview_not_ready")
                ELSE [@ EXCEPT !.pc = "negotiate", !.new = prevCell]]
    /\ UNCHANGED <<recLock, prevLock, recCell, prevCell, encoders, previews,
                   samplers, nCalls>>
    /\ UNCHANGED notRec

\* set_remote_description .. local_description on the cloned peer
WebrtcAnswerNegotiate(t) ==
    /\ th[t].op = "answer" /\ th[t].pc = "negotiate"
    /\ th' = [th EXCEPT ![t] =
                Returned(t, IF previews[th[t].new].st = "open"
                              THEN "ok" ELSE "peer_closed")]
    /\ UNCHANGED <<recLock, prevLock, recCell, prevCell, encoders, previews,
                   samplers, nCalls>>
    /\ UNCHANGED notRec

\* ------------------------------------------------------------------------
\* Environment of the capture controller
\* ------------------------------------------------------------------------
\* the capture encoder exits (on the quit token, or on its own)
EncoderExit(e) ==
    /\ encoders[e].st = "alive"
    /\ encoders' = [encoders EXCEPT ![e].st = "exited"]
    /\ UNCHANGED <<recLock, prevLock, recCell, prevCell, previews, samplers,
                   th, nCalls>>
    /\ UNCHANGED notRec

\* the preview ingress task binds 127.0.0.1:19000, or fails to and returns
UdpBind(p) ==
    /\ previews[p].udp = "pending"
    /\ previews[p].st = "open"
    /\ \E r \in {"bound", "bind_failed"} :
         previews' = [previews EXCEPT ![p].udp = r]
    /\ UNCHANGED <<recLock, prevLock, recCell, prevCell, encoders, samplers,
                   th, nCalls>>
    /\ UNCHANGED notRec

\* the sampler thread reads its stop flag as set and leaves its loop
SamplerExit(k) ==
    /\ samplers[k].st = "running"
    /\ samplers[k].stop
    /\ samplers' = [samplers EXCEPT ![k].st = "done"]
    /\ UNCHANGED <<recLock, prevLock, recCell, prevCell, encoders, previews,
                   th, nCalls>>
    /\ UNCHANGED notRec

NextRec ==
    \/ \E t \in Threads : StartRecordingCall(t)
    \/ \E t \in Threads : StartRecordingLock(t)
    \/ \E t \in Threads : StartRecordingCheck(t)
    \/ \E t \in Threads : StartRecordingArgs(t)
    \/ \E t \in Threads : StartRecordingPrevTake(t)
    \/ \E t \in Threads : StartRecordingPrevStop(t)
    \/ \E t \in Threads : StartRecordingPrevCreate(t)
    \/ \E t \in Threads : StartRecordingPrevStore(t)
    \/ \E t \in Threads : StartRecordingSpawn(t)
    \/ \E t \in Threads : StartRecordingSampler(t)
    \/ \E t \in Threads : StartRecordingStore(t)
    \/ \E t \in Threads : StopRecordingCall(t)
    \/ \E t \in Threads : StopRecordingLock(t)
    \/ \E t \in Threads : StopRecordingTake(t)
    \/ \E t \in Threads : StopRecordingQuit(t)
    \/ \E t \in Threads : StopRecordingPoll(t)
    \/ \E t \in Threads : StopRecordingKill(t)
    \/ \E t \in Threads : StopRecordingPrevTake(t)
    \/ \E t \in Threads : StopRecordingPrevStop(t)
    \/ \E t \in Threads : StopRecordingReturn(t)
    \/ \E t \in Threads : WebrtcAnswerCall(t)
    \/ \E t \in Threads : WebrtcAnswerPeer(t)
    \/ \E t \in Threads : WebrtcAnswerNegotiate(t)
    \/ \E e \in DOMAIN encoders : EncoderExit(e)
    \/ \E p \in DOMAIN previews : UdpBind(p)
    \/ \E k \in DOMAIN samplers : SamplerExit(k)

\* ------------------------------------------------------------------------
\* Cursor sampler thread (Windows build)
\* ------------------------------------------------------------------------
\* stop_recording: session.cursor_stop.store(true)
SamplerStop ==
    /\ ~smp.stop
    /\ smp.pc # "exited"
    /\ smp' = [smp EXCEPT !.stop = TRUE]
    /\ UNCHANGED cursorLog
    /\ UNCHANGED notSmp

\* File::create(cursor_path); the thread returns when it fails
SamplerCreate ==
    /\ smp.pc = "create"
    /\ \E ok \in BOOLEAN :
         smp' = [smp EXCEPT !.pc = IF ok THEN "check" ELSE "exited"]
    /\ UNCHANGED cursorLog
    /\ UNCHANGED notSmp

\* loop top: if stop_flag.load() { break }
SamplerCheck ==
    /\ smp.pc = "check"
    /\ smp.stop \/ smp.ticks < MaxTicks
    /\ smp' = [smp EXCEPT !.pc = IF smp.stop THEN "exited" ELSE "body"]
    /\ UNCHANGED cursorLog
    /\ UNCHANGED notSmp

\* GetCursorPos failed: sleep 30 ms; continue
SamplerNoCursor ==
    /\ smp.pc = "body"
    /\ \E j \in Jitter :
         smp' = [smp EXCEPT !.pc = "check", !.ticks = @ + 1,
                            !.elapsed = @ + smp.sleep + j,
                            !.sleep = SleepIdle]
    /\ UNCHANGED cursorLog
    /\ UNCHANGED notSmp

\* one iteration: read pointer and button, append move / down / up records,
\* maintain the zoom window, emit zoom_frame, sleep
SamplerBody ==
    /\ smp.pc = "body"
    /\ \E pos \in Positions, btn \in BOOLEAN, j \in Jitter :
         LET offset_ms == smp.elapsed + smp.sleep + j
             moved == pos # smp.last_pos
             down == btn /\ ~smp.last_btn
             up == ~btn /\ smp.last_btn
             rec(k) == [kind |-> k, offset_ms |-> offset_ms, pos |-> pos]
             moves == IF moved THEN <<rec("move")>> ELSE <<>>
             clicks == IF down THEN <<rec("down")>>
                       ELSE IF up THEN <<rec("up")>> ELSE <<>>
             wrote == moved \/ down \/ up
             win == IF down
                      THEN WindowAfterDown(smp.window_start_ms,
                                           smp.window_end_ms, offset_ms)
                      ELSE [s |-> smp.window_start_ms,
                            e |-> smp.window_end_ms]
             closed == win.s # NoneMs /\ offset_ms > win.e
         IN /\ cursorLog' = cursorLog \o moves \o clicks
            /\ smp' = [smp EXCEPT
                  !.pc = "check", !.ticks = @ + 1,
                  !.elapsed = offset_ms,
                  !.sleep = SleepAfter(wrote),
                  !.last_btn = btn,
                  !.last_pos = pos,
                  !.window_start_ms = IF closed THEN NoneMs ELSE win.s,
                  !.window_end_ms = IF closed THEN NoneMs ELSE win.e]
    /\ UNCHANGED notSmp

NextSmp ==
    \/ SamplerCreate
    \/ SamplerStop
    \/ SamplerCheck
    \/ SamplerNoCursor
    \/ SamplerBody

\* ------------------------------------------------------------------------
\* A session directory and ensure_zoom_track
\* ------------------------------------------------------------------------
\* a recording ran and was stopped: start_recording wrote capture.json, the
\* sampler wrote cursor.jsonl, the encoder wrote the media file
RecordSession ==
    /\ ~zdir.made
    /\ \E ts \in SUBSET SampleTimes, d \in MediaDurations :
         /\ Cardinality(ts) <= MaxSamples
         /\ \E at \in [1..Cardinality(ts) ->
                         [pos : ZPositions, btn : BOOLEAN]] :
              zdir' = [capture |-> CaptureFile("ok"),
                       cursor |-> CursorFile(
                                    SampleLog(SortedSeq(ts), at, 1,
                                              [x |-> -1, y |-> -1], FALSE)),
                       media |-> d, track |-> NoTrack, made |-> TRUE,
                       online |-> OnlineWindows(SortedSeq(ts), at, 1, FALSE,
                                                NoneMs, NoneMs, <<>>)]
    /\ UNCHANGED zret
    /\ UNCHANGED notZoom

\* capture.json is removed or overwritten by something else
DamageCapture ==
    /\ zdir.made
    /\ \E c \in {"missing", "garbled"} :
         /\ zdir.capture.st # c
         /\ zdir' = [zdir EXCEPT !.capture = CaptureFile(c)]
    /\ UNCHANGED zret
    /\ UNCHANGED notZoom

\* cursor.jsonl is removed or truncated
DamageCursor ==
    /\ zdir.made
    /\ \E c \in {NoCursorFile, CursorFile(<<>>)} :
         /\ zdir.cursor # c
         /\ zdir' = [zdir EXCEPT !.cursor = c]
    /\ UNCHANGED zret
    /\ UNCHANGED notZoom

\* path.exists() for zoom_track.json
NeverExists(track) == FALSE
TrackExists(track) == track # NoTrack

\* ensure_zoom_track(input_path) on the media file of the directory
EnsureZoomTrack ==
    /\ zdir.made
    /\ IF TrackExists(zdir.track)
         THEN /\ zret' = [ret |-> "zoom_track.json", built |-> FALSE,
                          read |-> {}]
              /\ UNCHANGED zdir
       ELSE IF ~zdir.cursor.present
         THEN /\ zret' = [ret |-> "cursor_events_missing", built |-> FALSE,
                          read |-> {}]
              /\ UNCHANGED zdir
       ELSE IF zdir.capture.st = "missing"
         THEN /\ zret' = [ret |-> "capture_meta_missing", built |-> FALSE,
                          read |-> {"capture.json"}]
              /\ UNCHANGED zdir
       ELSE IF zdir.capture.st = "garbled"
         THEN /\ zret' = [ret |-> "capture_meta_parse_failed",
                          built |-> FALSE, read |-> {"capture.json"}]
              /\ UNCHANGED zdir
       ELSE LET duration_ms == IF zdir.media < 0 THEN DefaultDurationMs
                               ELSE zdir.media
                rect == [width |-> Max(zdir.capture.rect.width, 1),
                         height |-> Max(zdir.capture.rect.height, 1)]
            IN /\ zdir' = [zdir EXCEPT
                    !.track = BuildTrack(zdir.cursor.events, duration_ms,
                                         rect)]
               /\ zret' = [ret |-> "zoom_track.json", built |-> TRUE,
                           read |-> {"capture.json", "cursor.jsonl"}]
    /\ UNCHANGED notZoom

NextZoom ==
    \/ RecordSession
    \/ DamageCapture
    \/ DamageCursor
    \/ EnsureZoomTrack

\* ------------------------------------------------------------------------
\* save_edit_state, load_edit_state
\* ------------------------------------------------------------------------
save_edit_state(output_path, edit_state) ==
    /\ efiles' = [efiles EXCEPT ![edit_state_path(output_path)] =
                     [exists |-> TRUE,
                      data |-> SerializeEditState(edit_state)]]
    /\ esaved' = [path |-> output_path, state |-> edit_state, done |-> TRUE]
    /\ eloaded' = NoLoad
    /\ UNCHANGED notEdit

load_edit_state(output_path) ==
    /\ LET file == efiles[edit_state_path(output_path)]
       IN eloaded' =
            [path |-> output_path, done |-> TRUE,
             ret |-> IF ~file.exists
                       THEN [ok |-> TRUE, err |-> "none",
                             state |-> DefaultEditState]
                       ELSE DeserializeEditState(file.data)]
    /\ UNCHANGED <<efiles, esaved>>
    /\ UNCHANGED notEdit

SaveEditState == \E p \in OutputPaths, es \in EditStates : save_edit_state(p, es)
LoadEditState == \E p \in OutputPaths : load_edit_state(p)

NextEdit ==
    \/ SaveEditState
    \/ LoadEditState

\* ------------------------------------------------------------------------
\* start_recording in region mode: the region it hands to the encoder
\* ------------------------------------------------------------------------
\* start_recording with capture_mode "region" and the region r
RegionRequest ==
    \E r \in Regions, b \in Builds :
        /\ rgn' = [req |-> r, res |-> AlignRegion(r, b), fed |-> FALSE,
                   prev |-> r,
                   rect |-> IF AlignRegion(r, b).ok THEN RegionRect(r)
                            ELSE NoRegionCall.rect]
        /\ UNCHANGED notRgn

\* start_recording with the region the last call handed to the encoder
RegionRequestAgain ==
    /\ rgn.res.ok
    /\ \E b \in Builds :
         rgn' = [req |-> rgn.res.region, res |-> AlignRegion(rgn.res.region, b),
                 fed |-> TRUE, prev |-> rgn.req,
                 rect |-> IF AlignRegion(rgn.res.region, b).ok
                            THEN RegionRect(rgn.res.region)
                            ELSE NoRegionCall.rect]
    /\ UNCHANGED notRgn

NextRgn ==
    \/ RegionRequest
    \/ RegionRequestAgain

\* ------------------------------------------------------------------------
\* Camera track commands and the camera part of run_export_job
\* ------------------------------------------------------------------------
\* save_camera_track: the raw JSON handed in is written as it is
SaveCameraTrack ==
    /\ camTrack' \in {BadCameraTrack} \cup {CameraTrack(l) : l \in CameraTracks}
    /\ UNCHANGED <<camFilter, notCam>>

\* ensure_camera_track: an absent track is written as one visible segment
\* over the whole recording, or with no segment when the duration is unknown
EnsureCameraTrack ==
    /\ camTrack.st = "missing"
    /\ \E d \in CameraDurations :
         camTrack' = IF d > 0
                       THEN CameraTrack(<<CameraSegment(0, d \div 1000, TRUE)>>)
                       ELSE CameraTrack(<<>>)
    /\ UNCHANGED <<camFilter, notCam>>

\* run_export_job up to the filter: has_camera, derive_camera_enable,
\* build_export_filter
ExportCameraFilter ==
    /\ \E has_camera \in BOOLEAN, camera_shadow \in CameraShadows :
         camFilter' = [built |-> TRUE, track |-> camTrack,
                       overlays |-> CameraOverlays(has_camera, camera_shadow,
                                       derive_camera_enable(camTrack))]
    /\ UNCHANGED <<camTrack, notCam>>

NextCam ==
    \/ SaveCameraTrack
    \/ EnsureCameraTrack
    \/ ExportCameraFilter

SpecCamera == Init /\ [][NextCam]_vars
\* ------------------------------------------------------------------------
\* get_export_status
\* ------------------------------------------------------------------------
\* lock; clone the entry of job_id, or export_not_found; unlock
GetExportStatus(id) ==
    /\ ~got.done
    /\ got' = [done |-> TRUE, job_id |-> id, ret |-> StatusOf(statuses, id)]
    /\ UNCHANGED <<expVars, recVars, smpVars, zoomVars, editVars, rgnVars,
                   camVars, lockVars, winVars, argVars>>

\* the export commands, get_export_status included
NextGet ==
    \/ NextExp
    \/ \E id \in JobIds : GetExportStatus(id)

\* ------------------------------------------------------------------------
\* The state mutexes: steps
\* ------------------------------------------------------------------------
\* a thread is handed a command (or a worker task its next block)
LockCall(t) ==
    /\ lockTh[t] = <<>>
    /\ \E ops \in LockPrograms : lockTh' = [lockTh EXCEPT ![t] = ops]
    /\ UNCHANGED <<lockOwner, notLock>>

\* Mutex::lock: blocks until the mutex is free
LockAcquire(t) ==
    /\ lockTh[t] # <<>>
    /\ Head(lockTh[t]).op = "lock"
    /\ lockOwner[Head(lockTh[t]).mutex] = "free"
    /\ lockOwner' = [lockOwner EXCEPT ![Head(lockTh[t]).mutex] = t]
    /\ lockTh' = [lockTh EXCEPT ![t] = Tail(@)]
    /\ UNCHANGED notLock

\* the guard goes out of scope
LockRelease(t) ==
    /\ lockTh[t] # <<>>
    /\ Head(lockTh[t]).op = "drop"
    /\ lockOwner' = [lockOwner EXCEPT ![Head(lockTh[t]).mutex] = "free"]
    /\ lockTh' = [lockTh EXCEPT ![t] = Tail(@)]
    /\ UNCHANGED notLock

NextLock ==
    \/ \E t \in LockThreads : LockCall(t)
    \/ \E t \in LockThreads : LockAcquire(t)
    \/ \E t \in LockThreads : LockRelease(t)

SpecLocks == Init /\ [][NextLock]_vars

\* ------------------------------------------------------------------------
\* Zoom windows of long recordings: steps
\* ------------------------------------------------------------------------
\* no export is inside derive_zoom_override
OverrideAtRest == ores.pc \in {"idle", "done"}

\* a recording has left its cursor.jsonl in a directory of its own
WindowsLog ==
    /\ OverrideAtRest
    /\ wlog' \in ClickLogs
    /\ wres' = NoWindows
    /\ otrack' = <<>>
    /\ ores' = NoOverride
    /\ UNCHANGED notWin

\* ensure_zoom_track: one iteration of `while wi < downs.len()`, or its end
WindowsBuild ==
    /\ wlog # <<>>
    /\ ~wres.built
    /\ IF wres.wi > Len(Downs(wlog))
         THEN wres' = [wres EXCEPT !.built = TRUE]
         ELSE LET n == NextWindow(wlog, Downs(wlog), wres.wi)
                  added == Append(wres.windows, n.w)
              IN wres' = [built |-> Len(added) >= MaxWindows, wi |-> n.wj,
                          windows |-> added]
    /\ UNCHANGED <<wlog, otrack, ores, notWin>>

NextWin ==
    \/ WindowsLog
    \/ WindowsBuild

SpecWindows == Init /\ [][NextWin]_vars

\* save_zoom_track: writes the track the editor hands over for the
\* recording it has loaded with ensure_zoom_track. derive_zoom_override
\* works on the frames it has read, so a write during it changes nothing
SaveZoomTrack ==
    /\ wres.built
    /\ OverrideAtRest
    /\ otrack' \in SavedTracks
    /\ ores' = NoOverride
    /\ UNCHANGED <<wlog, wres, notWin>>

\* derive_zoom_override, as run_export_job calls it for the recording:
\* the track is read and has frames
DeriveZoomOverride ==
    /\ otrack # <<>>
    /\ ores.pc = "idle"
    /\ ores' = [ores EXCEPT !.pc = "windows"]
    /\ UNCHANGED <<otrack, wlog, wres, notWin>>

\* one iteration of its `while i < n`
DeriveWindow ==
    /\ ores.pc = "windows"
    /\ LET n == NextRun(otrack, ores.i, ores.windows)
       IN ores' = [ores EXCEPT !.pc = IF n.more THEN "windows" ELSE "anchors",
                               !.i = IF n.more THEN n.i ELSE 1,
                               !.windows = n.windows]
    /\ UNCHANGED <<otrack, wlog, wres, notWin>>

\* its `for f in &track.frames` up to the next anchor
DeriveAnchor ==
    /\ ores.pc = "anchors"
    /\ LET n == NextAnchor(otrack, ores.i, ores.t_prev, ores.anchors)
       IN ores' = [ores EXCEPT !.pc = IF n.more THEN "anchors" ELSE "done",
                               !.i = n.i, !.t_prev = n.t_prev,
                               !.anchors = n.anchors]
    /\ UNCHANGED <<otrack, wlog, wres, notWin>>

NextCap ==
    \/ NextWin
    \/ SaveZoomTrack
    \/ DeriveZoomOverride
    \/ DeriveWindow
    \/ DeriveAnchor

SpecCap == Init /\ [][NextCap]_vars

\* ------------------------------------------------------------------------
\* run_export_job up to the spawn of the encoder
\* ------------------------------------------------------------------------
\* the job's request and the track files next to its input; none of the
\* steps up to the argv returns an error (one export per behaviour)
RunExportArgv ==
    /\ ~xargs.built
    /\ \E camera_path \in CameraPaths, edit_state \in ArgEditStates,
          zoom_file \in ZoomFiles, camera_file \in CameraFiles,
          clip_file \in ClipFiles :
         xargs' = [built |-> TRUE, camera_path |-> camera_path,
                   zoom_file |-> zoom_file, camera_file |-> camera_file,
                   clip_file |-> clip_file,
                   argv |-> ExportArgv(camera_path, edit_state, zoom_file,
                                       camera_file, clip_file),
                   err |-> "none"]
    /\ UNCHANGED notArg

NextArg == RunExportArgv

SpecArgv == Init /\ [][NextArg]_vars

\* the steps of a command a thread has been called with
ThreadStep(t) ==
    \/ StartRecordingLock(t) \/ StartRecordingCheck(t)
    \/ StartRecordingArgs(t) \/ StartRecordingPrevTake(t)
    \/ StartRecordingPrevStop(t) \/ StartRecordingPrevCreate(t)
    \/ StartRecordingPrevStore(t) \/ StartRecordingSpawn(t)
    \/ StartRecordingSampler(t) \/ StartRecordingStore(t)
    \/ StopRecordingLock(t) \/ StopRecordingTake(t)
    \/ StopRecordingQuit(t) \/ StopRecordingPoll(t)
    \/ StopRecordingKill(t) \/ StopRecordingPrevTake(t)
    \/ StopRecordingPrevStop(t) \/ StopRecordingReturn(t)
    \/ WebrtcAnswerPeer(t) \/ WebrtcAnswerNegotiate(t)
\* the capture controller with every command thread scheduled: a thread
\* that can take its next step does take it
FairSpecRec == Init /\ [][NextRec]_vars /\ \A t \in Threads : WF_vars(ThreadStep(t))
SpecGet == Init /\ [][NextGet]_vars
SpecExp == Init /\ [][NextExp]_vars
SpecRegion == Init /\ [][NextRgn]_vars
SpecEdit == Init /\ [][NextEdit]_vars
SpecZoom == Init /\ [][NextZoom]_vars
SpecRec == Init /\ [][NextRec]_vars
SpecSampler == Init /\ [][NextSmp]_vars

SessionHolders ==
    (IF recCell # NoSession THEN {"cell"} ELSE {})
        \cup {t \in Threads : th[t].sess # NoSession}
\* the Preview Sessions that exist: created and not yet closed
OpenPreviews == {p \in DOMAIN previews : previews[p].st = "open"}
\* the capture encoder children not yet waited for
Unreaped == {e \in DOMAIN encoders : encoders[e].st # "reaped"}

\* C1: at most one Recording Session exists in every reachable state, and a
\* start_recording that finds a session active returns
\* recording_already_running and leaves the session and every encoder child
\* as they were.
C1_AtMostOneSession ==
    /\ [](Cardinality(SessionHolders) <= 1)
    /\ [][\A t \in Threads :
            (th[t].op = "start" /\ th[t].pc = "check" /\ recCell # NoSession
                /\ th'[t] # th[t])
            => /\ th'[t].pc = "idle"
               /\ th'[t].ret = "recording_already_running"
               /\ recCell' = recCell
               /\ encoders' = encoders
               /\ samplers' = samplers]_vars

\* C1 witness: a start_recording was rejected while a session is stored and
\* its encoder child is alive.
C1_Witness ==
    /\ recCell # NoSession
    /\ encoders[recCell.child].st = "alive"
    /\ \E t \in Threads : /\ th[t].op = "start"
                          /\ th[t].pc = "idle"
                          /\ th[t].ret = "recording_already_running"

\* C5: while a session is stored it owns one encoder child, the only one not
\* yet waited for, and the cell is never overwritten by another session;
\* when stop_recording returns Ok its child has been reaped and no session
\* remains.
C5_OneChildPerSession ==
    /\ [](/\ recCell # NoSession =>
               /\ recCell.child \in DOMAIN encoders
               /\ Unreaped = {recCell.child}
          /\ \A t \in Threads : th[t].sess # NoSession =>
               Unreaped \subseteq {th[t].sess.child})
    /\ [][/\ (recCell # NoSession /\ recCell' # NoSession) => recCell' = recCell
          /\ \A t \in Threads :
               (th[t].op = "stop" /\ th[t].pc = "ret" /\ th'[t].pc = "idle")
               => /\ encoders'[th[t].sess.child].st = "reaped"
                  /\ Unreaped' = {}
                  /\ recCell' = NoSession
                  /\ SessionHolders' = {}]_vars

\* C5 witness: a stop_recording is about to return after it had to kill the
\* child of the session it took.
C5_Witness ==
    \E t \in Threads :
        /\ th[t].op = "stop" /\ th[t].pc = "ret"
        /\ encoders[th[t].sess.child].killed
        /\ encoders[th[t].sess.child].st = "reaped"

\* C9: at most one Preview Session exists in every reachable state (the
\* stored one, or the one a start_recording holds between taking or creating
\* it and closing or storing it), and when stop_recording returns Ok none is
\* stored or open.
C9_AtMostOnePreview ==
    /\ Cardinality(OpenPreviews) <= 1
    /\ prevCell # 0 => OpenPreviews = {prevCell}
    /\ \A t \in Threads :
         (th[t].op = "stop" /\ th[t].pc = "ret")
         => (prevCell = 0 /\ OpenPreviews = {})

\* C9 witness: a start_recording closed a prior Preview Session and stored
\* the new one it created.
C9_Witness ==
    /\ Len(previews) >= 2
    /\ previews[1].st = "closed"
    /\ prevCell = 2
    /\ \E t \in Threads : th[t].op = "start" /\ th[t].pc = "spawn"

\* the Preview Session the start_recording in progress on t has created:
\* t holds the recording lock from its check to its return, so the session
\* it created is the last one created
PreviewMadeBy(t) ==
    IF th[t].op = "start" /\ th[t].cam
         /\ th[t].pc \in {"prev_store", "spawn", "sampler", "store"}
      THEN Len(previews) ELSE 0

\* C34 (as stated): a start_recording that returns an error has stored no
\* Recording Session, has left no encoder child of its own running, has
\* started no sampler thread, and no Preview Session it created remains
\* stored.
C34_FailedStartLeavesNothing ==
    [][\A t \in Threads :
         (th[t].op = "start" /\ th[t].pc # "idle" /\ th'[t].pc = "idle"
            /\ th'[t].ret # "ok")
         => /\ recCell' = recCell
            /\ th[t].child = 0
            /\ th[t].sampler = 0
            /\ PreviewMadeBy(t) = 0 \/ prevCell' # PreviewMadeBy(t)]_vars

\* C10 (as stated): a start_recording whose Preview Session could not be
\* created still returns Ok.
C10_PreviewFailureStillRecords ==
    \A t \in Threads :
        (th[t].op = "start" /\ th[t].pc = "idle" /\ th[t].pfail)
        => th[t].ret = "ok"

\* ------------------------------------------------------------------------
\* Export manager: properties
\* ------------------------------------------------------------------------
\* the worker task w is inside run_export_job
InRun(w) == workers[w].pc \in {"probe", "poll", "trywait", "kill", "join"}
ChildAlive(w) == workers[w].child.st = "alive"
Finals == {"completed", "failed"}

\* C2: no two export jobs execute concurrently: at most one worker is inside
\* run_export_job and at most one export encoder child is alive (or not yet
\* reaped), and a child exists only inside run_export_job.
C2_NoConcurrentExport ==
    /\ Cardinality({w \in DOMAIN workers : InRun(w)}) <= 1
    /\ Cardinality({w \in DOMAIN workers :
                       workers[w].child.st \in {"alive", "exited"}}) <= 1
    /\ \A w \in DOMAIN workers :
          workers[w].child.st \in {"alive", "exited"} => InRun(w)

\* C2 witness: an encoder child is alive while another job waits in the queue
\* and a start_export is about to call ensure_export_worker.
C2_Witness ==
    /\ \E w \in DOMAIN workers : InRun(w) /\ ChildAlive(w)
    /\ queue # <<>>
    /\ \E c \in Callers : sx[c].pc = "ensure"

\* C3: jobs are processed in insertion order: if A was pushed before B, a
\* running status is written for B only after a final status (completed or
\* failed) was written for A.
C3_FifoOrder ==
    \A i, j \in 1..Len(appended) :
        (i < j /\ "running" \in written[appended[j]].states)
            => written[appended[i]].states \cap Finals # {}

\* C3 witness: the second job pushed has been set running.
C3_Witness ==
    /\ Len(appended) >= 2
    /\ "running" \in written[appended[2]].states

\* C4 (as stated): every enqueued job is served without a later start_export
\* call; so when no start_export is in flight and no worker task is alive,
\* no job is left in the queue.
C4_EveryJobServed ==
    ((\A c \in Callers : sx[c].pc = "idle")
        /\ (\A w \in DOMAIN workers : workers[w].pc = "exited"))
    => queue = <<>>

\* C11 (as stated): a failed export does not poison the queue: after a job
\* ended failed the jobs still queued and the jobs enqueued afterwards are
\* all served; so once a job has ended failed, no start_export is in flight
\* and no worker task is alive, no job is left in the queue.
C11_FailedDoesNotPoison ==
    ((\E r \in Requests : "failed" \in written[r].states)
        /\ (\A c \in Callers : sx[c].pc = "idle")
        /\ (\A w \in DOMAIN workers : workers[w].pc = "exited"))
    => /\ queue = <<>>
       /\ \A r \in Requests :
            written[r].states # {} => written[r].states \cap Finals # {}

\* C6 (as stated): the progress values written and emitted for one job never
\* decrease and lie in [0, 1].
C6_ProgressMonotone ==
    [][\A r \in Requests :
         /\ written'[r].progress \in 0..ProgressOne
         /\ emitted'[r].progress \in 0..ProgressOne
         /\ written'[r].progress >= written[r].progress
         /\ emitted'[r].progress >= emitted[r].progress]_vars

\* C24 (as stated): the failed status written at the end of a job carries
\* the progress of the most recent running status written for that job
\* (cancel_export in between changes the state only, not the progress).
C24_FailedKeepsProgress ==
    [][\A r \in Requests :
         (written'[r].state = "failed" /\ written[r].state # "failed"
            /\ "running" \in written[r].states)
         => written'[r].progress = written[r].progress]_vars

\* C25 (as stated): once cancel_export has set the status of a job to
\* cancelled, the status of that job never becomes running again, whatever
\* the worker and the reader thread do.
C25_CancelledStaysCancelled ==
    [][\A id \in JobIds :
         statuses[id].state = "cancelled"
         => statuses'[id].state # "running"]_vars

\* C32 (as stated): once the worker has written completed or failed for a
\* job, no later operation changes the status entry of that job.
C32_FinalStatusStable ==
    [][\A id \in JobIds :
         statuses[id].state \in Finals => statuses'[id] = statuses[id]]_vars

\* C33 (as stated): the export_progress events of one job follow its
\* lifecycle: the queued event comes first, then the running events, then
\* the final completed or failed event, and nothing after it.
C33_EventsInLifecycleOrder ==
    [][\A r \in Requests :
         emitted'[r] # emitted[r]
         => /\ emitted[r].states \cap Finals = {}
            /\ emitted'[r].state = "queued" => emitted[r].states = {}
            /\ emitted'[r].state # "queued"
                 => "queued" \in emitted[r].states]_vars

\* the worker tasks that have not returned
LiveWorkers == {w \in DOMAIN workers : workers[w].pc # "exited"}

\* C35: at most one export worker task is alive, and the running flag is
\* true whenever a worker may still pop from the queue: while running is
\* false every worker task has returned.
C35_SingleWorker ==
    /\ Cardinality(LiveWorkers) <= 1
    /\ LiveWorkers # {} => running

\* C35 witness: a first worker task has returned and a second one, spawned
\* by a later start_export, is about to pop.
C35_Witness ==
    /\ Len(workers) >= 2
    /\ workers[1].pc = "exited"
    /\ workers[2].pc = "pop"
    /\ queue # <<>>
    /\ running

\* C36: progress never arrives after the final status: run_export_job has
\* joined the stdout reader thread when it returns, on the cancel path and
\* on the exit path, so the reader is alive only inside run_export_job and
\* no running status is written or emitted for a job after the worker wrote
\* its completed or failed status.
C36_NoProgressAfterFinal ==
    /\ [](\A w \in DOMAIN workers :
            workers[w].rpc \in {"read", "emit"}
            => /\ InRun(w)
               /\ written[workers[w].job.request].states \cap Finals = {})
    /\ [][\A r \in Requests :
            written[r].states \cap Finals # {}
            => /\ written'[r] # written[r] => written'[r].state # "running"
               /\ emitted'[r] # emitted[r] => emitted'[r].state # "running"]_vars

\* C36 witness: a job whose reader had emitted progress was cancelled and
\* killed, and run_export_job has returned to the worker.
C36_Witness ==
    \E w \in DOMAIN workers :
        /\ workers[w].pc = "emit_final"
        /\ workers[w].killIssued
        /\ emitted[workers[w].job.request].state = "running"
        /\ emitted[workers[w].job.request].progress > 0

\* the final status the worker w has written is failed / export_cancelled
FinalIsCancelled(w) ==
    /\ FinalState(workers[w].result) = "failed"
    /\ FinalError(workers[w].result) = "export_cancelled"

\* C8 (as stated): a job cancelled while its encoder child was alive ends
\* with the child killed and waited and the final status failed with error
\* export_cancelled.
C8_CancelAlwaysFails ==
    \A w \in DOMAIN workers :
        (workers[w].pc = "emit_final" /\ workers[w].cancelledAlive)
        => /\ workers[w].killIssued
           /\ workers[w].child.st = "reaped"
           /\ FinalIsCancelled(w)

\* C8 (amended): a job cancelled while its encoder child was alive ends with
\* the child waited for. If the worker read the cancellation flag after the
\* cancel, the child was killed; whenever it was killed the final status is
\* failed / export_cancelled. Otherwise the encoder exited on its own, the
\* try_wait of the poll iteration in progress reaped it, no kill was issued
\* and the final status is that of the exit.
C8_CancelObservedFails ==
    \A w \in DOMAIN workers :
        (workers[w].pc = "emit_final" /\ workers[w].cancelledAlive)
        => /\ workers[w].child.st = "reaped"
           /\ workers[w].polledSince => workers[w].killIssued
           /\ IF workers[w].killIssued
                THEN FinalIsCancelled(w)
                ELSE /\ workers[w].ownExit
                     /\ workers[w].result \in {"ok", "export_failed"}

\* C8 witness: a job cancelled while its child was alive has been killed and
\* its final status written.
C8_Witness ==
    \E w \in DOMAIN workers :
        /\ workers[w].pc = "emit_final"
        /\ workers[w].cancelledAlive
        /\ workers[w].killIssued
        /\ written[workers[w].job.request].state = "failed"

\* ------------------------------------------------------------------------
\* ensure_zoom_track: properties
\* ------------------------------------------------------------------------
\* the duration ensure_zoom_track works with
TrackDurationMs == IF zdir.media < 0 THEN DefaultDurationMs ELSE zdir.media
\* ceil(a / b) and the integer nearest to a / b, for a >= 0 and b > 0
CeilDiv(a, b) == (a + b - 1) \div b
RoundDiv(a, b) == (2 * a + b) \div (2 * b)

\* C12 (as stated): a written zoom track has fps 30 and holds the frames
\* i = 0..ceil(duration_ms * fps / 1000) with time_ms = round(i * 1000 / fps),
\* with or without cursor events.
C12_FramesCoverDuration ==
    zdir.track # NoTrack =>
        /\ zdir.track.fps = 30
        /\ DOMAIN zdir.track.frames
             = 0..CeilDiv(TrackDurationMs * zdir.track.fps, 1000)
        /\ \A i \in DOMAIN zdir.track.frames :
             zdir.track.frames[i].time_ms = RoundDiv(i * 1000, zdir.track.fps)

\* the windows the claimed coalescing rule gives for the downs of a cursor
\* log: a down at t <= the end of the current window moves that end to
\* t + 5 s, a later down opens the window [t, t + 5 s]; ups and moves count
\* for nothing
RECURSIVE CoalescedWindows(_, _, _)
CoalescedWindows(events, i, acc) ==
    IF i > Len(events) THEN acc
    ELSE IF events[i].kind # "down" THEN CoalescedWindows(events, i + 1, acc)
    ELSE LET t == events[i].offset_ms
         IN IF acc # <<>> /\ t <= acc[Len(acc)].e
              THEN CoalescedWindows(events, i + 1,
                     [acc EXCEPT ![Len(acc)].e = t + 5000])
              ELSE CoalescedWindows(events, i + 1,
                     Append(acc, [s |-> t, e |-> t + 5000]))
\* the windows the offline builder makes of the cursor log, in ms
OfflineWindows(events) ==
    LET w == BuildWindows(events, Downs(events), 1, <<>>)
    IN [k \in 1..Len(w) |-> [s |-> w[k].s, e |-> w[k].e.ms]]

\* C17 (as stated): the sampler while recording and the offline builder of
\* the track both coalesce clicks by the same rule: a down at t <= the
\* window end, t equal to the end included, extends the end to t + 5 s and
\* keeps the start; only a later down opens a new window; an up changes
\* nothing.
C17_WindowCoalescing ==
    (zret.built /\ zdir.cursor.events # <<>>)
    => /\ zdir.online = CoalescedWindows(zdir.cursor.events, 1, <<>>)
       /\ OfflineWindows(zdir.cursor.events)
            = CoalescedWindows(zdir.cursor.events, 1, <<>>)

\* the offsets of the downs of a cursor log, in order
DownTimes(events) ==
    [k \in 1..Len(Downs(events)) |-> events[Downs(events)[k]].offset_ms]
\* the frames of a track whose time lies in [from, to] ms
FramesIn(frames, from, to) ==
    {i \in DOMAIN frames : frames[i].time_ms >= from /\ frames[i].time_ms <= to}

\* C18: in the track built from a cursor log, zoom is max_zoom (2) at every
\* frame in [s + 0.5, e - 0.5] of every window and 1 at every frame outside
\* all windows; and for downs at 1000 ms and 4000 ms there is the one
\* window [1.0, 9.0], zoom is 1 at 0.9 s, rises on [1.0, 1.5], is 2 on
\* [1.5, 8.5], falls on [8.5, 9.0] and is 1 at 9.1 s.
C18_ZoomProfile ==
    (zret.built /\ zdir.cursor.events # <<>>)
    => LET events == zdir.cursor.events
           w == OfflineWindows(events)
           f == zdir.track.frames
       IN /\ \A i \in DOMAIN f :
               /\ (\E k \in 1..Len(w) : /\ f[i].time_ms >= w[k].s + RampMs
                                        /\ f[i].time_ms <= w[k].e - RampMs)
                    => f[i].zoom = 2 * ZoomDen
               /\ (\A k \in 1..Len(w) : \/ f[i].time_ms < w[k].s
                                        \/ f[i].time_ms > w[k].e)
                    => f[i].zoom = ZoomDen
          /\ DownTimes(events) = <<1000, 4000>>
             => /\ w = <<[s |-> 1000, e |-> 9000]>>
                /\ \A i \in DOMAIN f :
                     /\ f[i].time_ms \in {900, 1000, 9000, 9100}
                          => f[i].zoom = ZoomDen
                     /\ f[i].time_ms \in {1500, 8500} => f[i].zoom = 2 * ZoomDen
                /\ \A i, j \in FramesIn(f, 1000, 1500) :
                     i < j => f[i].zoom < f[j].zoom
                /\ \A i \in FramesIn(f, 1500, 8500) : f[i].zoom = 2 * ZoomDen
                /\ \A i, j \in FramesIn(f, 8500, 9000) :
                     i < j => f[i].zoom > f[j].zoom
\* a track built for downs at 1000 ms and 4000 ms over 9.1 s of media, with
\* frames on the ramp in, on the plateau and after the window
C18_Witness ==
    /\ zret.built
    /\ DownTimes(zdir.cursor.events) = <<1000, 4000>>
    /\ zdir.media = 9100
    /\ \E i, j, k \in DOMAIN zdir.track.frames :
         /\ zdir.track.frames[i].time_ms = 1267
         /\ zdir.track.frames[i].zoom > ZoomDen
         /\ zdir.track.frames[i].zoom < 2 * ZoomDen
         /\ zdir.track.frames[j].time_ms = 4000
         /\ zdir.track.frames[j].zoom = 2 * ZoomDen
         /\ zdir.track.frames[k].time_ms = 9100
         /\ zdir.track.frames[k].zoom = ZoomDen

\* the length in capture pixels of the pointer's path over the moves
\* events[i..] up to the window end e, starting from the position last
RECURSIVE PathPx(_, _, _, _)
PathPx(events, i, e, last) ==
    IF i > Len(events) \/ TimeGt(events[i].offset_ms, e) THEN 0
    ELSE IF events[i].kind = "move"
      THEN DistPx(last, events[i].pos)
             + PathPx(events, i + 1, e, events[i].pos)
      ELSE PathPx(events, i + 1, e, last)
\* the windows the builder makes of a cursor log, each with the index in the
\* log of the down that opened it
RECURSIVE WindowDowns(_, _, _)
WindowDowns(events, w, k) ==
    IF k > Len(w) THEN <<>>
    ELSE <<CHOOSE i \in 1..Len(events) :
             events[i].kind = "down" /\ events[i].offset_ms = w[k].s>>
         \o WindowDowns(events, w, k + 1)
\* the center of a frame is the position pos
CenterAt(frame, pos) ==
    /\ frame.center.xn = pos.x * frame.center.d
    /\ frame.center.yn = pos.y * frame.center.d

C14_EnsureIdempotent ==
    /\ [](zret.ret = "zoom_track.json" => zdir.track # NoTrack)
    /\ [][(zdir.track # NoTrack /\ zret' # zret)
            => /\ zret'.ret = "zoom_track.json"
               /\ ~zret'.built
               /\ zret'.read = {}
               /\ zdir' = zdir]_vars

\* C14 witness: a second call returned the path without building, after
\* capture.json and cursor.jsonl were both lost and with a track built from
\* cursor events in place.
C14_Witness ==
    /\ zret.ret = "zoom_track.json"
    /\ ~zret.built
    /\ zdir.capture.st = "missing"
    /\ ~zdir.cursor.present
    /\ \E i \in DOMAIN zdir.track.frames : zdir.track.frames[i].zoom > ZoomDen

\* ------------------------------------------------------------------------
\* Edit state files: properties
\* ------------------------------------------------------------------------
\* C13 (as stated): save_edit_state(path, s) followed by load_edit_state on
\* the same path returns Ok(s), for every edit state s; the file both use
\* is edit_state.json next to path.
C13_SaveLoadRoundTrip ==
    (esaved.done /\ eloaded.done /\ eloaded.path = esaved.path)
    => /\ eloaded.ret.ok
       /\ eloaded.ret.state = esaved.state
       /\ efiles[edit_state_path(esaved.path)].exists

\* ------------------------------------------------------------------------
\* Region capture arguments: properties
\* ------------------------------------------------------------------------
AllEven(region) ==
    /\ region.x % 2 = 0 /\ region.y % 2 = 0
    /\ region.width % 2 = 0 /\ region.height % 2 = 0

\* C15: a region whose x, y, width and height are even, with width and
\* height positive, is handed to the encoder unchanged; and the region of
\* every successful alignment is such a region, so that aligning it again
\* changes nothing.
C15_AlignIdempotent ==
    /\ (AllEven(rgn.req) /\ rgn.req.width > 0 /\ rgn.req.height > 0)
         => (rgn.res.ok /\ rgn.res.region = rgn.req)
    /\ rgn.res.ok
         => (AllEven(rgn.res.region) /\ rgn.res.region.width > 0
               /\ rgn.res.region.height > 0)
    /\ rgn.fed => (rgn.res.ok /\ rgn.res.region = rgn.req)

\* C15 witness: the result of aligning a region that was odd in x and in
\* height was aligned again.
C15_Witness ==
    /\ rgn.fed
    /\ rgn.prev.x % 2 = 1 /\ rgn.prev.height % 2 = 1
    /\ rgn.res.ok
    /\ rgn.req # rgn.prev

\* C31: in region mode the rect written to capture.json and handed to the
\* cursor sampler equals the even-aligned region passed to the encoder, for
\* every accepted region.
C31_RectIsEncodedRegion ==
    rgn.res.ok => rgn.rect = rgn.res.region

\* C16 (as stated): the region (3, 5, 101, 100) is handed to the encoder as
\* (4, 6, 100, 100).
C16_ExampleAsStated ==
    rgn.req = CaptureRegion(3, 5, 101, 100)
        => (rgn.res.ok /\ rgn.res.region = CaptureRegion(4, 6, 100, 100))

\* C16 (amended): the region (3, 5, 101, 100) is handed to the encoder as
\* (4, 6, 100, 98): y odd takes one row off the height, and the odd height
\* 99 is then floored to 98.
C16_ExampleAligned ==
    rgn.req = CaptureRegion(3, 5, 101, 100)
        => (rgn.res.ok /\ rgn.res.region = CaptureRegion(4, 6, 100, 98))

\* C16 witness: start_recording was asked for the region (3, 5, 101, 100).
C16_Witness ==
    /\ rgn.req = CaptureRegion(3, 5, 101, 100)
    /\ ~rgn.fed
    /\ rgn.res.ok

\* ------------------------------------------------------------------------
\* stop_recording: the cursor sampler
\* ------------------------------------------------------------------------
\* the samplers whose session a stop_recording took and has returned from
StoppedSamplers ==
    {k \in DOMAIN samplers :
        /\ samplers[k].stop
        /\ \A t \in Threads : ~(th[t].op = "stop" /\ th[t].pc # "idle"
                                  /\ th[t].sess.sampler = k)}

\* C26 (as stated): when stop_recording has returned, the sampler thread of
\* the session it stopped has seen the stop flag and has terminated.
C26_SamplerFlushed ==
    \A k \in StoppedSamplers : samplers[k].st = "done"

\* ------------------------------------------------------------------------
\* stop_recording: the shutdown of the encoder
\* ------------------------------------------------------------------------
\* C23: stop_recording writes the quit token to the encoder before any
\* kill, polls the child at most 20 times, kills only after 20 polls none
\* of which saw the child exited, and always returns.
C23_CooperativeShutdown ==
    /\ [](\A t \in Threads : th[t].polls <= StopPolls)
    /\ [][\A c \in DOMAIN encoders :
            (~encoders[c].killed /\ encoders'[c].killed)
            => /\ encoders[c].quit
               /\ \E t \in Threads : /\ th[t].op = "stop" /\ th[t].pc = "kill"
                                     /\ th[t].sess.child = c
                                     /\ th[t].polls = StopPolls]_vars
    /\ \A t \in Threads :
         (th[t].op = "stop" /\ th[t].pc # "idle") ~> (th[t].pc = "idle")
\* a stop_recording that killed its encoder after the polls and returned
C23_Witness ==
    \E t \in Threads, c \in DOMAIN encoders :
        /\ th[t].op = "stop" /\ th[t].pc = "idle" /\ th[t].ret = "ok"
        /\ encoders[c].killed /\ encoders[c].quit
        /\ encoders[c].st = "reaped"

\* ------------------------------------------------------------------------
\* The state mutexes: properties
\* ------------------------------------------------------------------------
\* the mutexes the thread t holds
Held(t) == {m \in Mutexes : lockOwner[m] = t}
\* t waits for a mutex that is not free
LockBlocked(t) ==
    /\ lockTh[t] # <<>>
    /\ Head(lockTh[t]).op = "lock"
    /\ lockOwner[Head(lockTh[t]).mutex] # "free"
\* a set of threads each waiting for a mutex held inside the set
LockDeadlock ==
    \E S \in SUBSET LockThreads :
        /\ S # {}
        /\ \A t \in S : LockBlocked(t) /\ lockOwner[Head(lockTh[t]).mutex] \in S

\* C27: a thread that holds more than one mutex took the recording lock
\* before the preview lock (it takes the recording lock holding nothing, the
\* preview lock holding at most the recording lock), the export-manager
\* lock is never held with another, and no set of threads ever waits for
\* mutexes held among themselves.
C27_LockOrder ==
    /\ [](\A t \in LockThreads : "export" \in Held(t) => Held(t) = {"export"})
    /\ [](~LockDeadlock)
    /\ [][\A t \in LockThreads, m \in Mutexes :
            (lockOwner[m] # t /\ lockOwner'[m] = t)
            => /\ m = "recording" => Held(t) = {}
               /\ m = "preview" => Held(t) \subseteq {"recording"}
               /\ m = "export" => Held(t) = {}]_vars
\* a thread holds the recording and the preview lock while another waits
\* for the recording lock and a third holds the export-manager lock
C27_Witness ==
    \E t, u, v \in LockThreads :
        /\ Held(t) = {"recording", "preview"}
        /\ LockBlocked(u) /\ Head(lockTh[u]).mutex = "recording"
        /\ Held(v) = {"export"}

\* C28 (as stated): no thread ever holds two of the three mutexes at once.
C28_OneLockAtATime ==
    \A t \in LockThreads : Cardinality(Held(t)) <= 1

\* ------------------------------------------------------------------------
\* Zoom windows of long recordings: properties
\* ------------------------------------------------------------------------
\* the time t ms lies in the window w
InWindow(t, w) == t >= w.s /\ TimeLe(t, w.e)
\* the windows of wres that hold the time t
WindowsAt(t) == {k \in 1..Len(wres.windows) : InWindow(t, wres.windows[k])}
\* frame times to look at: all of them for a short log, for a long one the
\* frames next to the start and the end of each window
FrameTimesOf(events) ==
    LET last == events[Len(events)].offset_ms + TrackWindowMs + 1000
        near(t) == {FrameTimeMs(i) :
                      i \in Max(0, (t * ZoomFps) \div 1000 - 1)
                              ..((t * ZoomFps) \div 1000 + 2)}
    IN IF Len(events) <= 16
         THEN {FrameTimeMs(i) : i \in 0..TotalFrames(last)}
         ELSE UNION {near(wres.windows[k].s) \cup near(wres.windows[k].e.ms) :
                       k \in 1..Len(wres.windows)}
\* the windows are in order and apart: each starts after the one before ended
WindowsApart ==
    \A k \in 1..(Len(wres.windows) - 1) :
        TimeGt(wres.windows[k + 1].s, wres.windows[k].e)

\* C29 (as stated): the windows built from a cursor log are ordered and do
\* not overlap, every down belongs to exactly one window, and every frame
\* time lies in at most one window.
C29_WindowsPartitionDowns ==
    wres.built
    => /\ WindowsApart
       /\ \A i \in 1..Len(wlog) :
            wlog[i].kind = "down"
            => Cardinality(WindowsAt(wlog[i].offset_ms)) = 1
       /\ \A t \in FrameTimesOf(wlog) : Cardinality(WindowsAt(t)) <= 1
\* C29 (amended): the windows are ordered and do not overlap, every down
\* belongs to at most one window, and to exactly one unless 100 windows were
\* collected before it; every frame time lies in at most one window.
C29_WindowsDisjoint ==
    wres.built
    => /\ WindowsApart
       /\ \A i \in 1..Len(wlog) :
            wlog[i].kind = "down"
            => /\ Cardinality(WindowsAt(wlog[i].offset_ms)) <= 1
               /\ (Len(wres.windows) < MaxWindows
                     \/ TimeLe(wlog[i].offset_ms,
                               wres.windows[Len(wres.windows)].e))
                  => Cardinality(WindowsAt(wlog[i].offset_ms)) = 1
       /\ \A t \in FrameTimesOf(wlog) : Cardinality(WindowsAt(t)) <= 1
\* the windows of a log with more clicks, each more than 5 s after the one
\* before, than windows are collected
C29_Witness ==
    /\ wres.built
    /\ Len(wres.windows) = MaxWindows
    /\ Len(Downs(wlog)) > MaxWindows
    /\ WindowsAt(wlog[Len(wlog)].offset_ms) = {}
    /\ WindowsAt(wlog[2].offset_ms) = {2}

\* C30: the windows are capped at 100 wherever they are collected:
\* ensure_zoom_track produces at most 100 windows and derive_zoom_override
\* nests at most 100, for any number of downs or zoomed frame runs.
C30_WindowsCapped ==
    /\ Len(wres.windows) <= MaxWindows
    /\ Len(ores.windows) <= MaxWindows

\* C40 (as stated): the anchors of the center expressions follow the zoom
\* track over its whole duration: the last anchor lies within one sampling
\* step (120 ms plus one frame) of the last frame time, for tracks of any
\* length, so every zoom window lies within the anchors.
C40_AnchorsCoverTrack ==
    ores.pc = "done"
    => LET last == ores.anchors[Len(ores.anchors)]
           step == AnchorStepMs + 1000 \div ZoomFps + 1
       IN /\ otrack[Len(otrack)].time_ms - last <= step
          /\ \A k \in 1..Len(ores.windows) :
                ores.windows[k].e - last <= step
\* ------------------------------------------------------------------------
\* the chains of the filter that read the label l, and those that write it
ChainsReading(l) ==
    {k \in DOMAIN xargs.argv.filter :
        \E i \in DOMAIN xargs.argv.filter[k].ins :
            xargs.argv.filter[k].ins[i] = l}
ChainsWriting(l) ==
    {k \in DOMAIN xargs.argv.filter :
        \E i \in DOMAIN xargs.argv.filter[k].outs :
            xargs.argv.filter[k].outs[i] = l}
\* the chains of the filter that use the filter f
ChainsWith(f) ==
    {k \in DOMAIN xargs.argv.filter :
        \E i \in DOMAIN xargs.argv.filter[k].filters :
            xargs.argv.filter[k].filters[i] = f}

\* C38: the argv is self-consistent: the filter defines the label [v] that
\* -map uses, once and as the output of its last chain, and it reads input
\* 1 ([1:v]) exactly when argv has a second -i, which is exactly when
\* camera_path is given, not empty and names an existing file.
C38_ArgvSelfConsistent ==
    xargs.built
    => /\ xargs.argv.maps[1] = "v"
       /\ ChainsWriting("v") = {Len(xargs.argv.filter)}
       /\ ChainsReading("v") = {}
       /\ ChainsReading("1:v") # {} <=> Len(xargs.argv.inputs) = 2
       /\ Len(xargs.argv.inputs) = 2
            <=> (xargs.camera_path.given /\ xargs.camera_path.text # NoPath
                   /\ xargs.camera_path.on_disk)

\* C38 witness: an argv with the camera as second input, whose filter has
\* the chains of both shadows and reads [1:v].
C38_Witness ==
    /\ xargs.built
    /\ Len(xargs.argv.inputs) = 2
    /\ ChainsReading("1:v") # {}
    /\ Len(xargs.argv.filter) = 9

\* C39: a track file that is missing, unreadable, not a track or empty is
\* not an error: run_export_job does not fail for it and builds the filter
\* without the zoom, the camera enable or the clip select.
C39_MissingTracksAreNoErrors ==
    LET lacks(file) == file.st # "ok" \/ file.segments = <<>>
    IN xargs.built
       => /\ xargs.err = "none"
          /\ ChainsWriting("v") # {}
          /\ lacks(xargs.zoom_file)
               => (ChainsWith("zoompan") = {} /\ ChainsWith("fps") # {})
          /\ lacks(xargs.camera_file)
               => \A k \in DOMAIN xargs.argv.filter :
                     xargs.argv.filter[k].enable = NoExpr
          /\ lacks(xargs.clip_file) => ChainsWith("select") = {}

\* C39 witness: an export with a camera whose three track files are
\* missing, not a track and empty.
C39_Witness ==
    /\ xargs.built
    /\ Len(xargs.argv.inputs) = 2
    /\ xargs.zoom_file.st = "missing"
    /\ xargs.camera_file.st = "garbage"
    /\ xargs.clip_file = TrackFile("ok", <<>>)

\* ------------------------------------------------------------------------
\* get_export_status: properties
\* ------------------------------------------------------------------------
\* the job ids start_export has given out so far: those it has inserted a
\* status for and those of the invocations that have not inserted yet
InsertedIds == {id \in JobIds : statuses[id] # NoStatus}
AssignedIds == InsertedIds \cup {sx[c].job_id : c \in {d \in Callers : sx[d].pc = "push"}}

\* C37 (as stated): every start_export call assigns a job id that no
\* earlier start_export call was assigned, however close in time the calls.
C37_DistinctJobIds ==
    [][\A c \in Callers :
         (sx[c].pc = "idle" /\ sx'[c].pc = "push")
         => sx'[c].job_id \notin AssignedIds]_vars

InVisibleSegment(segments, t) ==
    \E i \in 1..Len(segments) :
        /\ segments[i].visible
        /\ segments[i].start_s <= t /\ t <= segments[i].end_s

\* C21 (as stated): in the filter built for an export with a camera track,
\* the camera overlay and its shadow draw at t only if t lies in a visible
\* segment of the track; a track whose segments are all hidden never shows
\* the camera.
C21_CameraOnlyWhenVisible ==
    (camFilter.built /\ camFilter.track.st = "ok"
       /\ camFilter.track.segments # <<>>)
    => \A k \in 1..Len(camFilter.overlays), t \in FilterTimes :
           OverlayOn(camFilter.overlays[k], t)
           => InVisibleSegment(camFilter.track.segments, t)

====
